---- MODULE Spec2Model ----
(***************************************************************************)
(* Frame synchronisation and presentation pipeline of vlkEngine:           *)
(* command buffer manager (renderer/command_buffer.h), sync registry       *)
(* (renderer/sync.c), swapchain controller (swapchain.c) and the assert    *)
(* handler (main.c) they rely on.  The Vulkan device is the environment:   *)
(* every vk* call's result is an input of the action that makes the call.  *)
(***************************************************************************)
EXTENDS Integers, Sequences, FiniteSets, TLC

(* ------------------------------------------------------------------ *)
(* Program constants                                                   *)
(* ------------------------------------------------------------------ *)
VE_MAX_FRAMES_IN_FLIGHT == 3
NumLanes == 3

Slots == 0 .. (VE_MAX_FRAMES_IN_FLIGHT - 1)
Lanes == 0 .. (NumLanes - 1)

VE_COMMAND_BUFFER_GRAPHICS == 0
VE_COMMAND_BUFFER_COMPUTE == 1
VE_COMMAND_BUFFER_TRANSFER == 2

\* memory.c
VE_MEMORY_ALIGNMENT == 16
\* timer.c: ve_pool_create(64, 10)
pool_element_size == 64

(* ------------------------------------------------------------------ *)
(* Bounds of the model                                                 *)
(* ------------------------------------------------------------------ *)
\* lanes whose command buffers the caller drives (0 .. NumDrivenLanes-1)
NumDrivenLanes == 1
\* submissions the device keeps pending per lane queue
MaxQueue == 1

\* worker threads of the pool, threads that submit to it, tasks they submit
NumWorkers == 2
NumCallers == 2
MaxTasks == 3
\* thread.c gives the task queue 1024 entries; the model's queue is shorter
queue_capacity == 2
\* blocks of the memory pool (timer.c makes one of 10)
pool_capacity == 3
\* width of size_t in bits
SizeBits == 8

DrivenLanes == 0 .. (NumDrivenLanes - 1)
\* a command buffer is named by its (frame slot, lane) pair
Bufs == Slots \X Lanes
DrivenBufs == Slots \X DrivenLanes

\* a fence argument is {} (VK_NULL_HANDLE) or {s}: the render fence of slot s
NoFence == {}

VARIABLES
    alive,                   \* FALSE once ve_assert_fatal / SIGTRAP ended the process
    g_assert_mode,           \* main.c: static ve_assert_mode g_assert_mode
    g_assert_callback,       \* main.c: g_assert_callback is set (TRUE) or NULL
    g_initialized,           \* command_buffer.h: static bool g_initialized
    g_command_pools,         \* [Lanes -> BOOLEAN]: pool handle is not VK_NULL_HANDLE
    g_frame_command_buffers, \* [Slots -> [Lanes -> BOOLEAN]]: entry is not NULL
    vk_command_pools,        \* how many VkCommandPool objects exist on the device
    cmd,                     \* [buffer -> ve_command_buffer]: the structs callers hold
    vk_state,                \* [buffer -> lifecycle state of the buffer on the device]
    queue,                   \* [lane -> Seq([buf, fence])]: pending submissions, FIFO
    fences,                  \* [Slots -> render_fence: "null" | "signaled" | "unsignaled"]
    sync_current_frame,      \* sync.c: g_sync_state.current_frame
    sync_handles,            \* [Slots -> the other primitives of the slot whose
                             \* handle is not VK_NULL_HANDLE]
    vk_sync_objects,         \* how many fences and semaphores exist on the device
    vk_current_frame,        \* vulkan_core.c: g_vulkan_context.current_frame
    g_swapchain,             \* swapchain.c: static ve_swapchain g_swapchain
    g_owns_framebuffers,     \* swapchain.c: static bool g_owns_framebuffers
    vk_framebuffers,         \* the VkFramebuffer handles that exist on the device
    vk_chain_objects,        \* how many VkSwapchainKHR and VkImageView objects
                             \* exist on the device
    vk_injected,             \* the handles among them that a caller made and passed
                             \* to ve_swapchain_set_framebuffers without ownership
    last,                    \* the most recent call: operation, result, what it saw,
                             \* and the waits and destroy calls it made on the
                             \* device, in the order it made them
    pool,                    \* thread.c: the ve_thread_pool (task_semaphore is the
                             \* semaphore's count, freed: the pool was destroyed)
    worker,                  \* [Workers -> where the worker is in worker_thread and
                             \* the task it took]
    submitting,              \* [Callers -> the task a submit has queued and not
                             \* yet signalled]
    submit_result,           \* [Callers -> what the caller's last submit returned]
    issued,                  \* the tasks that were handed to ve_thread_pool_submit
    submitted,               \* the tasks for which submit returned true
    executed,                \* [Tasks -> how many times the task function ran]
    waiter,                  \* the caller of ve_thread_pool_wait
    queue_arg,               \* the VkQueue the last ve_command_buffer_submit_simple
                             \* was given, named by the lane the queue serves
    arenas,                  \* [ArenaIds -> ve_arena], NoArena before ve_arena_create
    ve_pool,                 \* memory.c: the ve_pool a caller made
    pool_words,              \* [block -> the pointer its first word holds]
    pool_allocated           \* the blocks of the pool that callers hold

assertVars == <<g_assert_mode, g_assert_callback>>
mgrVars == <<g_initialized, g_command_pools, g_frame_command_buffers, vk_command_pools>>
cmdVars == <<cmd, vk_state, queue>>
syncObjVars == <<sync_handles, vk_sync_objects>>
syncVars == <<fences, sync_current_frame, sync_handles, vk_sync_objects>>
swapVars == <<g_swapchain, g_owns_framebuffers, vk_framebuffers, vk_injected,
              vk_chain_objects>>
rendererState == <<alive, assertVars, mgrVars, cmdVars, syncVars, vk_current_frame,
                   swapVars, queue_arg>>
memPoolVars == <<ve_pool, pool_words, pool_allocated>>
memVars == <<arenas, memPoolVars>>
rendererVars == <<rendererState, last, memVars>>
callerVars == <<submitting, submit_result, issued, submitted>>
poolVars == <<pool, worker, callerVars, executed, waiter>>
coreVars == <<poolVars, queue_arg, memVars>>
vars == <<alive, g_assert_mode, g_assert_callback, g_initialized, g_command_pools,
          g_frame_command_buffers, vk_command_pools, cmd, vk_state, queue, fences,
          sync_current_frame, sync_handles, vk_sync_objects, vk_current_frame,
          g_swapchain, g_owns_framebuffers, vk_framebuffers, vk_injected,
          vk_chain_objects, last, pool, worker, submitting, submit_result, issued,
          submitted, executed, waiter, queue_arg, arenas, ve_pool, pool_words,
          pool_allocated>>

(* ------------------------------------------------------------------ *)
(* Assert handler (main.c)                                             *)
(* ------------------------------------------------------------------ *)
AssertModes == {"VE_ASSERT_MODE_DEBUG_BREAK", "VE_ASSERT_MODE_LOG_AND_CONTINUE",
                "VE_ASSERT_MODE_LOG_AND_EXIT", "VE_ASSERT_MODE_CALLBACK"}

\* ve_assert_handle: the values should_continue can take; cb is what the
\* installed callback answers when it is asked.
ve_assert_handle(mode, hasCallback, cb) ==
    CASE mode = "VE_ASSERT_MODE_DEBUG_BREAK" -> FALSE
      [] mode = "VE_ASSERT_MODE_LOG_AND_CONTINUE" -> TRUE
      [] mode = "VE_ASSERT_MODE_LOG_AND_EXIT" -> FALSE
      [] mode = "VE_ASSERT_MODE_CALLBACK" -> IF hasCallback THEN cb ELSE FALSE

\* VE_ASSERT(expr): TRUE when execution goes on past the macro, FALSE when
\* ve_assert_fatal aborts the process.
VE_ASSERT(expr, cb) ==
    expr \/ ve_assert_handle(g_assert_mode, g_assert_callback, cb)

\* the record of a call that made the device calls `trace`
TracedRet(trace, op, res, pre, dev) ==
    [op |-> op, res |-> res, pre |-> pre, dev |-> dev, trace |-> trace]

\* the record of a call that neither waits for the device nor destroys
Ret(op, res, pre, dev) == TracedRet(<< >>, op, res, pre, dev)

\* an entry of a trace: the device call, how many objects the calls of that
\* loop destroyed, and how many of those no longer existed on the device
DeviceCall(call, count, stale) == [call |-> call, count |-> count, stale |-> stale]

\* the entries of a trace that destroy or free device objects
IsDestroy(e) == e.call # "vkDeviceWaitIdle"

\* the call recorded in `rec` was `op` and destroyed or freed something
DestroyedIn(rec, op) ==
    rec.op = op /\ \E i \in DOMAIN rec.trace : IsDestroy(rec.trace[i])

\* a destroy loop that finds nothing to destroy makes no call
Destroys(call, count, stale) ==
    IF count = 0 THEN << >> ELSE <<DeviceCall(call, count, stale)>>

\* of `count` objects destroyed, those beyond the `existing` ones
Stale(count, existing) == IF count > existing THEN count - existing ELSE 0

\* a teardown that does not wait for the device
wait_idle_skipped == << >>

\* ve_vulkan_wait_idle (vulkan_core.c:835-839), vkDeviceWaitIdle
ve_vulkan_wait_idle == <<DeviceCall("vkDeviceWaitIdle", 0, 0)>>

\* the process is gone: nothing of the program state changes any more
Abort(op, pre) ==
    /\ alive' = FALSE
    /\ last' = Ret(op, "ABORT", pre, FALSE)

ve_assert_set_mode(mode) ==
    /\ alive
    /\ g_assert_mode' = mode
    /\ last' = Ret("ve_assert_set_mode", "void", TRUE, FALSE)
    /\ UNCHANGED <<coreVars, alive, g_assert_callback, mgrVars, cmdVars, syncVars, vk_current_frame,
                   swapVars>>

ve_assert_set_callback(isSet) ==
    /\ alive
    /\ g_assert_callback' = isSet
    /\ last' = Ret("ve_assert_set_callback", "void", TRUE, FALSE)
    /\ UNCHANGED <<coreVars, alive, g_assert_mode, mgrVars, cmdVars, syncVars, vk_current_frame,
                   swapVars>>

(* ------------------------------------------------------------------ *)
(* Command buffer manager (renderer/command_buffer.h, implementation)  *)
(* ------------------------------------------------------------------ *)
BufLane(c) == c[2]

\* a pointer that is NULL: no pool, no command buffer
NoPool == <<>>
NoBuf == <<>>

\* ve_command_buffer_get_pool: <<index of the pool>>, or NoPool for NULL
ve_command_buffer_get_pool(type) ==
    IF ~g_initialized \/ type >= NumLanes THEN NoPool ELSE <<type>>

\* ve_command_buffer_allocate: TRUE when it returns a struct (filled as in
\* lines 565-568), FALSE when it returns NULL;
\* devOK: vkAllocateCommandBuffers and the host allocation both succeed
ve_command_buffer_allocate(type, devOK) ==
    IF ve_command_buffer_get_pool(type) = NoPool THEN FALSE
    ELSE devOK

\* ve_command_buffer_get_current: the (slot, lane) of the current frame's
\* buffer, or NoBuf for NULL
ve_command_buffer_get_current(type) ==
    IF ~g_initialized \/ type >= NumLanes THEN NoBuf
    ELSE IF g_frame_command_buffers[vk_current_frame][type]
         THEN <<vk_current_frame, type>>
         ELSE NoBuf

NoPools == [l \in Lanes |-> FALSE]
NoFrameBuffers == [s \in Slots |-> [l \in Lanes |-> FALSE]]
FreshCmd == [is_recording |-> FALSE, is_submitting |-> FALSE]

\* index of an allocation in the order of the loops of lines 483-494
AllocIndex(frame, type) == frame * NumLanes + type
NumAllocs == VE_MAX_FRAMES_IN_FLIGHT * NumLanes

\* the pools ve_command_buffer_init has made when vkCreateCommandPool number
\* poolFail fails: the ones before it, over what the statics held
CreatedPools(poolFail) ==
    [l \in Lanes |-> IF l < poolFail THEN TRUE ELSE g_command_pools[l]]

PoolCount(pools) == Cardinality({l \in Lanes : pools[l]})

\* the pool loop of a shutdown that destroys nothing
pools_left_alive(pools) == pools

\* ve_command_buffer_shutdown, lines 518-523: every pool that is not
\* VK_NULL_HANDLE is destroyed and its handle set to VK_NULL_HANDLE
DestroyedPools(pools) == [l \in Lanes |-> FALSE]

\* ve_command_buffer_shutdown, the vk->device != NULL path, run on statics
\* that hold `pools`: every frame buffer freed and set to NULL, every pool
\* destroyed, g_initialized cleared
ShutdownFrom(pools) ==
    /\ g_frame_command_buffers' = NoFrameBuffers
    /\ g_command_pools' = DestroyedPools(pools)
    /\ vk_command_pools' =
          vk_command_pools + (PoolCount(pools) - PoolCount(g_command_pools))
             - (PoolCount(pools) - PoolCount(DestroyedPools(pools)))
    /\ g_initialized' = FALSE

ShutdownState == ShutdownFrom(g_command_pools)

\* the device calls of ve_command_buffer_shutdown on statics that hold
\* `pools` and the frame buffers `bufs`: ve_command_buffer_free reaches
\* vkFreeCommandBuffers when ve_command_buffer_get_pool gives a pool
CommandBufferShutdownTrace(pools, bufs) ==
    Destroys("vkFreeCommandBuffers",
             IF g_initialized
             THEN Cardinality({x \in Slots \X Lanes : bufs[x[1]][x[2]]}) ELSE 0, 0)
        \o Destroys("vkDestroyCommandPool", PoolCount(pools),
                    Stale(PoolCount(pools),
                          vk_command_pools + PoolCount(pools) - PoolCount(g_command_pools)))

ve_command_buffer_shutdown ==
    /\ alive
    /\ ShutdownState
    /\ last' = TracedRet(CommandBufferShutdownTrace(g_command_pools,
                                                      g_frame_command_buffers),
                         "ve_command_buffer_shutdown", "void", TRUE, FALSE)
    /\ UNCHANGED <<coreVars, alive, assertVars, cmdVars, syncVars, vk_current_frame,
                   swapVars>>

\* ve_command_buffer_init.  poolFail: index of the first vkCreateCommandPool
\* that fails (NumLanes: none); allocFail: index of the first device
\* allocation that fails (NumAllocs: none).
ve_command_buffer_init(poolFail, allocFail) ==
    LET devAllOk == poolFail = NumLanes /\ allocFail = NumAllocs
        \* the struct ve_command_buffer_allocate hands back for (frame, type)
        got(frame, type) ==
            ve_command_buffer_allocate(type, AllocIndex(frame, type) # allocFail)
        failed == {i \in 0 .. (NumAllocs - 1) :
                     \E f \in Slots, t \in Lanes :
                        AllocIndex(f, t) = i /\ ~got(f, t)}
        \* the frame buffer entries that are not NULL when a failure is met
        firstFailed == IF poolFail < NumLanes \/ failed = {} THEN 0
                       ELSE CHOOSE i \in failed : \A k \in failed : i <= k
        held == [f \in Slots |-> [t \in Lanes |->
                    IF AllocIndex(f, t) < firstFailed THEN got(f, t)
                    ELSE g_frame_command_buffers[f][t]]]
        \* the rollback is a ve_command_buffer_shutdown
        rollback == CommandBufferShutdownTrace(CreatedPools(poolFail), held)
    IN
    /\ alive
    /\ IF poolFail = VE_COMMAND_BUFFER_GRAPHICS
       THEN /\ UNCHANGED mgrVars
            /\ last' = Ret("ve_command_buffer_init", "VK_ERROR", devAllOk,
                           vk_command_pools)
       ELSE IF poolFail < NumLanes
       THEN /\ ShutdownFrom(CreatedPools(poolFail))
            /\ last' = TracedRet(rollback, "ve_command_buffer_init", "VK_ERROR", devAllOk,
                           vk_command_pools)
       ELSE IF failed # {}
       THEN /\ ShutdownFrom(CreatedPools(poolFail))
            /\ last' = TracedRet(rollback, "ve_command_buffer_init", "VK_ERROR_OUT_OF_DEVICE_MEMORY",
                           devAllOk, vk_command_pools)
       ELSE /\ g_command_pools' = CreatedPools(poolFail)
            /\ g_frame_command_buffers' = [s \in Slots |-> [l \in Lanes |-> TRUE]]
            /\ vk_command_pools' =
                  vk_command_pools + (PoolCount(CreatedPools(poolFail))
                                         - PoolCount(g_command_pools))
            /\ g_initialized' = TRUE
            /\ last' = Ret("ve_command_buffer_init", "VK_SUCCESS", devAllOk,
                           vk_command_pools)
    \* on success every (slot, lane) has a freshly allocated buffer
    /\ cmd' = IF poolFail = NumLanes /\ failed = {}
              THEN [c \in Bufs |-> FreshCmd] ELSE cmd
    /\ vk_state' = IF poolFail = NumLanes /\ failed = {}
                   THEN [c \in Bufs |-> "initial"] ELSE vk_state
    /\ queue' = IF poolFail = NumLanes /\ failed = {}
                THEN [l \in Lanes |-> IF l \in DOMAIN queue THEN queue[l] ELSE << >>]
                ELSE queue
    /\ UNCHANGED <<coreVars, alive, assertVars, syncVars, vk_current_frame,
                   swapVars>>

\* results the device gives a call it may refuse
DevResults == {"VK_SUCCESS", "VK_ERROR_DEVICE_LOST"}

\* what the entry point `op` returns when the device answered devRes:
\* ve_command_buffer_begin_frame hands back the buffer or NULL, the others
\* the VkResult
Returned(op, devRes) ==
    IF op = "ve_command_buffer_begin_frame"
    THEN (IF devRes = "VK_SUCCESS" THEN "cmd" ELSE "NULL")
    ELSE devRes

\* ve_command_buffer_begin on buffer c; devRes: what vkBeginCommandBuffer
\* answers; cb: what an installed assert callback answers; op: the public
\* entry point the call came through
ve_command_buffer_begin(c, devRes, cb, op) ==
    LET pre == ~cmd[c].is_recording IN
    IF ~VE_ASSERT(pre, cb)
    THEN /\ Abort(op, pre)
         /\ UNCHANGED <<coreVars, assertVars, mgrVars, cmdVars, syncVars, vk_current_frame,
                   swapVars>>
    ELSE /\ cmd' = IF devRes = "VK_SUCCESS"
                   THEN [cmd EXCEPT ![c].is_recording = TRUE] ELSE cmd
         /\ vk_state' = IF devRes = "VK_SUCCESS"
                        THEN [vk_state EXCEPT ![c] = "recording"] ELSE vk_state
         /\ last' = Ret(op, Returned(op, devRes), pre, TRUE)
         /\ UNCHANGED <<coreVars, alive, assertVars, mgrVars, queue, syncVars, vk_current_frame,
                   swapVars>>

\* ve_command_buffer_end on buffer c; devRes: what vkEndCommandBuffer answers
ve_command_buffer_end(c, devRes, cb, op) ==
    LET pre == cmd[c].is_recording IN
    IF ~VE_ASSERT(pre, cb)
    THEN /\ Abort(op, pre)
         /\ UNCHANGED <<coreVars, assertVars, mgrVars, cmdVars, syncVars, vk_current_frame,
                   swapVars>>
    ELSE /\ cmd' = IF devRes = "VK_SUCCESS"
                   THEN [cmd EXCEPT ![c].is_recording = FALSE] ELSE cmd
         /\ vk_state' = IF devRes = "VK_SUCCESS" /\ vk_state[c] = "recording"
                        THEN [vk_state EXCEPT ![c] = "executable"] ELSE vk_state
         /\ last' = Ret(op, devRes, pre, TRUE)
         /\ UNCHANGED <<coreVars, alive, assertVars, mgrVars, queue, syncVars, vk_current_frame,
                   swapVars>>

\* ve_command_buffer_submit of buffer c with completion fence `fence`;
\* hasQueue: vk->queues has a handle for the buffer's lane; devRes: what
\* vkQueueSubmit answers.  pre: the buffer is "ready to submit".
ve_command_buffer_submit(c, fence, hasQueue, devRes, cb, op) ==
    LET pre == vk_state[c] = "executable" IN
    IF ~VE_ASSERT(~cmd[c].is_recording, cb)
    THEN /\ Abort(op, pre)
         /\ UNCHANGED <<poolVars, memVars, assertVars, mgrVars, cmdVars, syncVars, vk_current_frame,
                   swapVars>>
    ELSE IF ~hasQueue
    THEN /\ last' = Ret(op, "VK_ERROR_DEVICE_LOST", pre, FALSE)
         /\ UNCHANGED <<poolVars, memVars, alive, assertVars, mgrVars, cmdVars, syncVars, vk_current_frame,
                   swapVars>>
    ELSE /\ queue' = IF devRes = "VK_SUCCESS"
                     THEN [queue EXCEPT ![BufLane(c)] =
                              Append(@, [buf |-> c, fence |-> fence])]
                     ELSE queue
         /\ vk_state' = IF devRes = "VK_SUCCESS"
                        THEN [vk_state EXCEPT ![c] = "submitted"] ELSE vk_state
         \* is_submitting is set for the duration of vkQueueSubmit only
         /\ cmd' = [cmd EXCEPT ![c].is_submitting = FALSE]
         /\ last' = Ret(op, devRes, pre, devRes = "VK_SUCCESS")
         /\ UNCHANGED <<poolVars, memVars, alive, assertVars, mgrVars, syncVars, vk_current_frame,
                   swapVars>>

\* ve_command_buffer_submit_simple(cmd, queue, fence): forwards cmd and fence
\* to ve_command_buffer_submit
ve_command_buffer_submit_simple(c, q, fence, hasQueue, devRes, cb) ==
    /\ queue_arg' = q
    /\ ve_command_buffer_submit(c, fence, hasQueue, devRes, cb,
                                "ve_command_buffer_submit_simple")

\* ve_command_buffer_begin_frame(type)
ve_command_buffer_begin_frame(type, devRes, cb) ==
    LET c == ve_command_buffer_get_current(type) IN
    IF c = NoBuf
    THEN /\ last' = Ret("ve_command_buffer_begin_frame", "NULL", TRUE, FALSE)
         /\ UNCHANGED <<coreVars, alive, assertVars, mgrVars, cmdVars, syncVars, vk_current_frame,
                   swapVars>>
    ELSE IF cmd[c].is_recording
    THEN \* "Command buffer already recording": the buffer is handed back
         /\ last' = Ret("ve_command_buffer_begin_frame", "cmd", FALSE, FALSE)
         /\ UNCHANGED <<coreVars, alive, assertVars, mgrVars, cmdVars, syncVars, vk_current_frame,
                   swapVars>>
    ELSE ve_command_buffer_begin(c, devRes, cb, "ve_command_buffer_begin_frame")

\* ve_command_buffer_end_frame(cmd); c = NoBuf is a NULL argument
ve_command_buffer_end_frame(c, devRes, cb) ==
    IF c = NoBuf
    THEN /\ last' = Ret("ve_command_buffer_end_frame", "VK_ERROR_OUT_OF_HOST_MEMORY",
                        FALSE, FALSE)
         /\ UNCHANGED <<coreVars, alive, assertVars, mgrVars, cmdVars, syncVars, vk_current_frame,
                   swapVars>>
    ELSE IF ~cmd[c].is_recording
    THEN /\ last' = Ret("ve_command_buffer_end_frame", "VK_ERROR_OUT_OF_HOST_MEMORY",
                        FALSE, FALSE)
         /\ UNCHANGED <<coreVars, alive, assertVars, mgrVars, cmdVars, syncVars, vk_current_frame,
                   swapVars>>
    ELSE ve_command_buffer_end(c, devRes, cb, "ve_command_buffer_end_frame")

\* the device finishes the oldest pending submission of a lane's queue and
\* signals the fence the submission was armed with
GpuComplete(l) ==
    /\ alive
    /\ queue[l] # << >>
    /\ queue' = [queue EXCEPT ![l] = Tail(@)]
    /\ fences' = [s \in Slots |->
                    IF s \in Head(queue[l]).fence THEN "signaled" ELSE fences[s]]
    /\ last' = Ret("GpuComplete", "void", TRUE, FALSE)
    /\ UNCHANGED <<coreVars, alive, assertVars, mgrVars, cmd, vk_state, sync_current_frame, syncObjVars,
                   vk_current_frame,
                   swapVars>>

(* ------------------------------------------------------------------ *)
(* Sync registry (renderer/sync.c) and the frame counters              *)
(* ------------------------------------------------------------------ *)
\* ve_sync_get_current_frame: the slot whose primitives are current
ve_sync_get_current_frame == sync_current_frame

\* ve_sync_wait_for_frame(timeout): vkWaitForFences on the current slot's
\* render fence.  A signaled fence ends the wait with VK_SUCCESS; a fence
\* that stays unsignaled ends a bounded wait with VK_TIMEOUT; devLost: the
\* device reports loss instead.
ve_sync_wait_for_frame(devLost) ==
    /\ alive
    /\ last' = Ret("ve_sync_wait_for_frame",
                   IF devLost THEN "VK_ERROR_DEVICE_LOST"
                   ELSE IF fences[ve_sync_get_current_frame] = "signaled"
                        THEN "VK_SUCCESS" ELSE "VK_TIMEOUT",
                   fences[ve_sync_get_current_frame] = "signaled", TRUE)
    /\ UNCHANGED <<coreVars, alive, assertVars, mgrVars, cmdVars, syncVars, vk_current_frame,
                   swapVars>>

\* ve_sync_reset_frame: vkResetFences on the current slot's render fence
ve_sync_reset_frame(devRes) ==
    /\ alive
    /\ fences' = IF devRes = "VK_SUCCESS"
                 THEN [fences EXCEPT ![ve_sync_get_current_frame] = "unsignaled"]
                 ELSE fences
    /\ last' = Ret("ve_sync_reset_frame", devRes, TRUE, TRUE)
    /\ UNCHANGED <<coreVars, alive, assertVars, mgrVars, cmdVars, sync_current_frame, syncObjVars,
                   vk_current_frame,
                   swapVars>>

\* the slot index two places on
frame_index_after_next(current) == (current + 2) % VE_MAX_FRAMES_IN_FLIGHT

\* (g_sync_state.current_frame + 1) % VE_MAX_FRAMES_IN_FLIGHT
NextFrameIndex(current) == (current + 1) % VE_MAX_FRAMES_IN_FLIGHT

ve_sync_advance_frame ==
    /\ alive
    /\ sync_current_frame' = NextFrameIndex(sync_current_frame)
    /\ last' = Ret("ve_sync_advance_frame", "void", TRUE, FALSE)
    /\ UNCHANGED <<coreVars, alive, assertVars, mgrVars, cmdVars, fences, syncObjVars, vk_current_frame,
                   swapVars>>

\* ve_vulkan_get_current_frame: the slot ve_command_buffer_get_current reads
ve_vulkan_get_current_frame == vk_current_frame

ve_vulkan_advance_frame ==
    /\ alive
    /\ vk_current_frame' = (vk_current_frame + 1) % VE_MAX_FRAMES_IN_FLIGHT
    /\ last' = Ret("ve_vulkan_advance_frame", "void", TRUE, FALSE)
    /\ UNCHANGED <<coreVars, alive, assertVars, mgrVars, cmdVars, syncVars,
                   swapVars>>

(* ------------------------------------------------------------------ *)
(* Swapchain controller (swapchain.c)                                  *)
(* ------------------------------------------------------------------ *)
\* Bounds: images a chain is built with, framebuffer handles the device has
MaxImages == 3
MaxHandles == 3
\* image views left on the device by chains that are gone
MaxLeaked == 1
\* ve_sync_init calls without a ve_sync_shutdown between them
MaxSyncInits == 2

Handles == 1 .. MaxHandles
\* a pointer that is NULL: no framebuffer array
NoArray == << >>

Range(s) == {s[i] : i \in DOMAIN s}
Min(S) == CHOOSE x \in S : \A y \in S : x <= y

\* static ve_swapchain g_swapchain = {0}.  images and image_views hold the
\* number of entries of the array the pointer refers to (0: NULL);
\* framebuffers is the array of handles (NoArray: NULL).
ZeroSwapchain ==
    [swapchain |-> FALSE, images |-> 0, image_views |-> 0,
     framebuffers |-> NoArray, image_count |-> 0, current_image_index |-> 0,
     out_of_date |-> FALSE, format |-> "VK_FORMAT_UNDEFINED",
     extent |-> [width |-> 0, height |-> 0]]

\* the handles vkCreateFramebuffer gives for k creations in a row when the
\* handles of `used` exist: the device hands out its lowest free handle
RECURSIVE FreshHandles(_, _)
FreshHandles(used, k) ==
    IF k = 0 THEN << >>
    ELSE LET h == Min(Handles \ used)
         IN <<h>> \o FreshHandles(used \cup {h}, k - 1)

HandlesLeft(used) == Cardinality(Handles \ used)

\* ve_vulkan_wait_idle (vkDeviceWaitIdle): when it returns every pending
\* submission has completed and the fences they carried are signaled
IdleQueue == [l \in DOMAIN queue |-> << >>]
IdleFences ==
    [s \in Slots |->
        IF \E l \in DOMAIN queue : \E i \in 1 .. Len(queue[l]) : s \in queue[l][i].fence
        THEN "signaled" ELSE fences[s]]

(* ------------------------------------------------------------------ *)
(* Sync registry: ve_sync_init and ve_sync_shutdown (renderer/sync.c)   *)
(* ------------------------------------------------------------------ *)
\* ve_frame_sync (sync.h): the fences and the semaphores of a frame slot, the
\* fences in the order ve_sync_init creates them
FenceOrder == <<"render_fence", "compute_fence", "transfer_fence">>
FencePrimitives == Range(FenceOrder)
SemaphorePrimitives ==
    {"image_available_semaphore", "render_finished_semaphore",
     "compute_finished_semaphore", "transfer_finished_semaphore"}
FramePrimitives == FencePrimitives \cup SemaphorePrimitives

\* the state VK_FENCE_CREATE_SIGNALED_BIT gives the render fence (sync.c:34)
fence_created_without_signaled_bit == "unsignaled"
RenderFenceCreateState == "signaled"

\* memset(&g_sync_state, 0, ...): every handle of every slot is NULL
NoFences == [s \in Slots |-> "null"]
NoSyncHandles == [s \in Slots |-> {}]

\* every creation of ve_sync_init succeeds
NoFailure == << >>
\* <<slot, primitive>>: the creation that fails
SyncFailures == Slots \X FramePrimitives

\* the primitives ve_sync_init has created in slot s when the creation
\* `fail` fails: a failed fence ends the call at once, the four semaphores of
\* a slot are all requested before the result is looked at
CreatedInSlot(s, fail) ==
    IF fail = NoFailure THEN FramePrimitives
    ELSE IF s < fail[1] THEN FramePrimitives
    ELSE IF s > fail[1] THEN {}
    ELSE IF fail[2] \in FencePrimitives
         THEN {FenceOrder[i] : i \in {k \in DOMAIN FenceOrder :
                                        \E n \in DOMAIN FenceOrder :
                                            k < n /\ FenceOrder[n] = fail[2]}}
         ELSE FramePrimitives \ {fail[2]}

CreatedFences(fail) ==
    [s \in Slots |-> IF "render_fence" \in CreatedInSlot(s, fail)
                     THEN RenderFenceCreateState ELSE "null"]
CreatedHandles(fail) ==
    [s \in Slots |-> CreatedInSlot(s, fail) \ {"render_fence"}]

\* the handles of g_sync_state that are not VK_NULL_HANDLE
shutdown_destroying_fences_only(fs, hs) ==
    {<<s, "render_fence">> : s \in {t \in Slots : fs[t] # "null"}}
        \cup {x \in Slots \X (FencePrimitives \ {"render_fence"}) : x[2] \in hs[x[1]]}

\* ve_sync_shutdown: the handles it destroys, every fence and semaphore of
\* every slot that is not null
SyncShutdownDestroys(fs, hs) ==
    {<<s, "render_fence">> : s \in {t \in Slots : fs[t] # "null"}}
        \cup {x \in Slots \X (FramePrimitives \ {"render_fence"}) : x[2] \in hs[x[1]]}

\* the device calls of ve_sync_shutdown on a g_sync_state that holds the
\* fences fs and the handles hs, the device holding `existing` objects
SyncShutdownTrace(fs, hs, existing) ==
    LET fenceCount == Cardinality({x \in SyncShutdownDestroys(fs, hs) :
                                      x[2] \in FencePrimitives})
        semCount == Cardinality({x \in SyncShutdownDestroys(fs, hs) :
                                    x[2] \in SemaphorePrimitives})
    IN <<DeviceCall("vkDeviceWaitIdle", 0, 0)>>
          \o Destroys("vkDestroyFence", fenceCount, Stale(fenceCount + semCount, existing))
          \o Destroys("vkDestroySemaphore", semCount,
                      IF fenceCount = 0 THEN Stale(semCount, existing) ELSE 0)

\* ve_sync_init.  The memset at its head forgets (and so leaks) whatever
\* handles g_sync_state held.  last.pre: the device's object count at entry.
ve_sync_init(fail) ==
    LET made == Cardinality({x \in Slots \X FramePrimitives :
                                x[2] \in CreatedInSlot(x[1], fail)})
    IN
    /\ alive
    /\ sync_current_frame' = 0
    /\ IF fail = NoFailure
       THEN /\ fences' = CreatedFences(fail)
            /\ sync_handles' = CreatedHandles(fail)
            /\ vk_sync_objects' = vk_sync_objects + made
            /\ queue' = queue
            /\ last' = Ret("ve_sync_init", "VK_SUCCESS", vk_sync_objects, fail)
       ELSE /\ fences' = NoFences
            /\ sync_handles' = NoSyncHandles
            /\ vk_sync_objects' =
                  vk_sync_objects + made
                     - Cardinality(SyncShutdownDestroys(CreatedFences(fail),
                                                        CreatedHandles(fail)))
            /\ queue' = IdleQueue
            /\ last' = TracedRet(SyncShutdownTrace(CreatedFences(fail), CreatedHandles(fail),
                                                   vk_sync_objects + made),
                                 "ve_sync_init",
                           IF fail[2] \in FencePrimitives THEN "VK_ERROR"
                           ELSE "VK_ERROR_OUT_OF_DEVICE_MEMORY",
                           vk_sync_objects, fail)
    /\ UNCHANGED <<coreVars, alive, assertVars, mgrVars, cmd, vk_state, vk_current_frame,
                   swapVars>>

\* ve_sync_shutdown: vkDeviceWaitIdle, destroy what is not null, memset
\* last.dev: the call before was a ve_sync_shutdown that destroyed objects
ve_sync_shutdown ==
    /\ alive
    /\ queue' = IdleQueue
    /\ vk_sync_objects' =
          vk_sync_objects - Cardinality(SyncShutdownDestroys(fences, sync_handles))
    /\ fences' = NoFences
    /\ sync_handles' = NoSyncHandles
    /\ sync_current_frame' = 0
    /\ last' = TracedRet(SyncShutdownTrace(fences, sync_handles, vk_sync_objects),
                         "ve_sync_shutdown", "void", vk_sync_objects,
                         DestroyedIn(last, "ve_sync_shutdown"))
    /\ UNCHANGED <<coreVars, alive, assertVars, mgrVars, cmd, vk_state, vk_current_frame,
                   swapVars>>

(* ------------------------------------------------------------------ *)
(* Swapchain controller: what a chain is built with (swapchain.c)      *)
(* ------------------------------------------------------------------ *)
\* Bound: entries of the format list and of the present mode list a
\* surface offers
MaxOffered == 2

RECURSIVE SeqsUpTo(_, _)
\* the non-empty sequences over S of length up to n
SeqsUpTo(S, n) ==
    IF n = 0 THEN {}
    ELSE {<<x>> : x \in S}
            \cup {<<x>> \o t : x \in S, t \in SeqsUpTo(S, n - 1)}

\* VkSurfaceFormatKHR values a surface may offer
SurfaceFormats ==
    {[format |-> "VK_FORMAT_B8G8R8A8_SRGB",
      colorSpace |-> "VK_COLOR_SPACE_SRGB_NONLINEAR_KHR"],
     [format |-> "VK_FORMAT_B8G8R8A8_SRGB",
      colorSpace |-> "VK_COLOR_SPACE_EXTENDED_SRGB_LINEAR_EXT"],
     [format |-> "VK_FORMAT_B8G8R8A8_UNORM",
      colorSpace |-> "VK_COLOR_SPACE_SRGB_NONLINEAR_KHR"]}

\* a preferred format is a set: empty for a NULL pointer, else the one format
NoPreferred == {}

\* the selection without its first loop
choose_surface_format_ignoring_preferred(formats, preferred) ==
    LET srgb == {i \in DOMAIN formats :
                    /\ formats[i].format = "VK_FORMAT_B8G8R8A8_SRGB"
                    /\ formats[i].colorSpace = "VK_COLOR_SPACE_SRGB_NONLINEAR_KHR"}
    IN IF srgb # {} THEN formats[Min(srgb)] ELSE formats[1]

\* ve_swapchain_choose_surface_format: the first entry equal to the
\* preferred one, else the first B8G8R8A8_SRGB / SRGB_NONLINEAR entry, else
\* formats[0]
ve_swapchain_choose_surface_format(formats, preferred) ==
    LET pref == {i \in DOMAIN formats :
                    \E p \in preferred :
                        /\ formats[i].format = p.format
                        /\ formats[i].colorSpace = p.colorSpace}
        srgb == {i \in DOMAIN formats :
                    /\ formats[i].format = "VK_FORMAT_B8G8R8A8_SRGB"
                    /\ formats[i].colorSpace = "VK_COLOR_SPACE_SRGB_NONLINEAR_KHR"}
    IN IF pref # {} THEN formats[Min(pref)]
       ELSE IF srgb # {} THEN formats[Min(srgb)]
       ELSE formats[1]

\* VkPresentModeKHR values a surface may offer
PresentModes ==
    {"VK_PRESENT_MODE_IMMEDIATE_KHR", "VK_PRESENT_MODE_MAILBOX_KHR",
     "VK_PRESENT_MODE_FIFO_KHR"}

\* the selection with its two loops in the other order
choose_present_mode_immediate_first(modes, vsync, triple_buffering) ==
    IF ~vsync /\ "VK_PRESENT_MODE_IMMEDIATE_KHR" \in Range(modes)
    THEN "VK_PRESENT_MODE_IMMEDIATE_KHR"
    ELSE IF triple_buffering /\ ~vsync
            /\ "VK_PRESENT_MODE_MAILBOX_KHR" \in Range(modes)
    THEN "VK_PRESENT_MODE_MAILBOX_KHR"
    ELSE "VK_PRESENT_MODE_FIFO_KHR"

\* ve_swapchain_choose_present_mode
ve_swapchain_choose_present_mode(modes, vsync, triple_buffering) ==
    IF triple_buffering /\ ~vsync
       /\ \E i \in DOMAIN modes : modes[i] = "VK_PRESENT_MODE_MAILBOX_KHR"
    THEN "VK_PRESENT_MODE_MAILBOX_KHR"
    ELSE IF ~vsync
            /\ \E i \in DOMAIN modes : modes[i] = "VK_PRESENT_MODE_IMMEDIATE_KHR"
    THEN "VK_PRESENT_MODE_IMMEDIATE_KHR"
    ELSE "VK_PRESENT_MODE_FIFO_KHR"

\* UINT32_MAX, the width of a surface without an extent of its own.  The
\* extents of the model are below 2^31; 0xFFFFFFFF is written as the signed
\* value of the same 32 bits and is only ever compared for equality.
UINT32_MAX == -1

\* bits of the significand of a float (IEEE 754 binary32)
FLT_MANT_DIG == 24

RECURSIVE Pow2(_)
Pow2(n) == IF n = 0 THEN 1 ELSE 2 * Pow2(n - 1)

RECURSIVE BitLength(_)
\* the number of binary digits of x
BitLength(x) == IF x = 0 THEN 0 ELSE 1 + BitLength(x \div 2)

\* (float)x for a uint32_t x: exact while x has at most FLT_MANT_DIG binary
\* digits, else rounded to the nearest value with that many, a tie to the
\* one whose last digit is even.  The float is written as the integer it
\* equals.
ToFloat(x) ==
    IF BitLength(x) <= FLT_MANT_DIG THEN x
    ELSE LET ulp == Pow2(BitLength(x) - FLT_MANT_DIG)
             q == x \div ulp
             r == x % ulp
         IN IF 2 * r > ulp \/ (2 * r = ulp /\ q % 2 = 1)
            THEN (q + 1) * ulp ELSE q * ulp

fminf(a, b) == IF a < b THEN a ELSE b
fmaxf(a, b) == IF a > b THEN a ELSE b

\* (uint32_t)fmaxf((float)min, fminf((float)max, (float)requested))
ClampedThroughFloat(min, max, requested) ==
    fmaxf(ToFloat(min), fminf(ToFloat(max), ToFloat(requested)))

\* ve_swapchain_choose_extent
ve_swapchain_choose_extent(capabilities, width, height) ==
    IF capabilities.currentExtent.width # UINT32_MAX
    THEN capabilities.currentExtent
    ELSE [width |-> ClampedThroughFloat(capabilities.minImageExtent.width,
                                        capabilities.maxImageExtent.width, width),
          height |-> ClampedThroughFloat(capabilities.minImageExtent.height,
                                         capabilities.maxImageExtent.height, height)]

\* the three selections as calls of their own: last.pre holds the arguments,
\* last.res the value returned
choose_surface_format(formats, preferred) ==
    /\ alive
    /\ last' = Ret("ve_swapchain_choose_surface_format",
                   ve_swapchain_choose_surface_format(formats, preferred),
                   [formats |-> formats, preferred |-> preferred], FALSE)
    /\ UNCHANGED <<coreVars, alive, assertVars, mgrVars, cmdVars, syncVars, vk_current_frame,
                   swapVars>>

choose_present_mode(modes, vsync, triple_buffering) ==
    /\ alive
    /\ last' = Ret("ve_swapchain_choose_present_mode",
                   ve_swapchain_choose_present_mode(modes, vsync, triple_buffering),
                   [modes |-> modes, vsync |-> vsync,
                    triple_buffering |-> triple_buffering], FALSE)
    /\ UNCHANGED <<coreVars, alive, assertVars, mgrVars, cmdVars, syncVars, vk_current_frame,
                   swapVars>>

choose_extent(capabilities, width, height) ==
    /\ alive
    /\ last' = Ret("ve_swapchain_choose_extent",
                   ve_swapchain_choose_extent(capabilities, width, height),
                   [capabilities |-> capabilities, width |-> width,
                    height |-> height], FALSE)
    /\ UNCHANGED <<coreVars, alive, assertVars, mgrVars, cmdVars, syncVars, vk_current_frame,
                   swapVars>>

(* ------------------------------------------------------------------ *)
(* Swapchain controller: build, teardown, frame calls (swapchain.c)    *)
(* ------------------------------------------------------------------ *)
\* the framebuffer loop as it would be without the g_owns_framebuffers test
destroyed_framebuffers_ignoring_ownership(sc, owns) ==
    {sc.framebuffers[i] : i \in (1 .. sc.image_count) \cap DOMAIN sc.framebuffers}

\* the loop "for i < image_count: if framebuffers[i] vkDestroyFramebuffer",
\* run when the chain owns a framebuffer array: the handles it destroys
DestroyedFramebuffers(sc, owns) ==
    IF owns /\ sc.framebuffers # NoArray
    THEN {sc.framebuffers[i] : i \in (1 .. sc.image_count) \cap DOMAIN sc.framebuffers}
    ELSE {}

\* that loop reads past the end of the framebuffer array
FramebuffersReadOutOfBounds(sc, owns) ==
    owns /\ sc.framebuffers # NoArray /\ sc.image_count > Len(sc.framebuffers)

\* the loop "for i < image_count: if image_views[i] vkDestroyImageView" of
\* ve_swapchain_destroy reads past the end of the view array
ViewsReadOutOfBounds(sc) ==
    sc.image_views > 0 /\ sc.image_count > sc.image_views

\* the process dies inside `op` (a wild read or a wild handle faulted)
Crash(op) ==
    /\ alive' = FALSE
    /\ last' = Ret(op, "CRASH", TRUE, FALSE)
    /\ UNCHANGED <<coreVars, assertVars, mgrVars, cmdVars, syncVars, vk_current_frame, swapVars>>

\* the loop "for i < image_count: if image_views[i] vkDestroyImageView": how
\* many of the chain's views it destroys
DestroyedViews(sc) == Min({sc.image_count, sc.image_views})

\* a destroy without its vkDestroySwapchainKHR
after_destroy_keeping_chain(objects, sc) ==
    [objects EXCEPT !.image_views = @ - Min({sc.image_count, sc.image_views})]

\* the device's objects after ve_swapchain_destroy ran on the struct sc
AfterDestroy(objects, sc) ==
    [swapchains |-> objects.swapchains - (IF sc.swapchain THEN 1 ELSE 0),
     image_views |-> objects.image_views - DestroyedViews(sc)]

\* a destroy that does not reset the swapchain handle
destroyed_chain_keeping_handle(sc) ==
    [sc EXCEPT !.framebuffers = NoArray, !.image_views = 0, !.images = 0,
               !.image_count = 0, !.current_image_index = 0]

\* what ve_swapchain_destroy leaves in the struct; out_of_date, format and
\* extent are not touched
DestroyedChain(sc) ==
    [sc EXCEPT !.framebuffers = NoArray, !.image_views = 0, !.images = 0,
               !.swapchain = FALSE, !.image_count = 0, !.current_image_index = 0]

\* the device calls of ve_swapchain_destroy on the chain sc, the device
\* holding the framebuffers `live` and the chain objects `objects`
SwapchainDestroyTrace(sc, owns, live, objects) ==
    ve_vulkan_wait_idle
        \o Destroys("vkDestroyFramebuffer",
                    Cardinality(DestroyedFramebuffers(sc, owns)),
                    Cardinality(DestroyedFramebuffers(sc, owns) \ live))
        \o Destroys("vkDestroyImageView", DestroyedViews(sc),
                    Stale(DestroyedViews(sc), objects.image_views))
        \o Destroys("vkDestroySwapchainKHR", IF sc.swapchain THEN 1 ELSE 0,
                    Stale(IF sc.swapchain THEN 1 ELSE 0, objects.swapchains))

\* ve_swapchain_destroy.  dies: the out-of-bounds read, when there is one,
\* ends the process
ve_swapchain_destroy(dies) ==
    LET oob == \/ FramebuffersReadOutOfBounds(g_swapchain, g_owns_framebuffers)
               \/ ViewsReadOutOfBounds(g_swapchain)
    IN
    /\ alive
    /\ dies => oob
    /\ IF dies THEN Crash("ve_swapchain_destroy")
       ELSE /\ g_swapchain' = DestroyedChain(g_swapchain)
            /\ vk_framebuffers' =
                  vk_framebuffers \ DestroyedFramebuffers(g_swapchain, g_owns_framebuffers)
            /\ vk_chain_objects' = AfterDestroy(vk_chain_objects, g_swapchain)
            /\ queue' = IdleQueue
            /\ fences' = IdleFences
            /\ last' = TracedRet(SwapchainDestroyTrace(g_swapchain, g_owns_framebuffers,
                                                          vk_framebuffers, vk_chain_objects),
                                    "ve_swapchain_destroy", "void", TRUE, FALSE)
            /\ UNCHANGED <<coreVars, alive, assertVars, mgrVars, cmd, vk_state,
                           sync_current_frame, syncObjVars, vk_current_frame,
                           g_owns_framebuffers, vk_injected>>

\* "Image count" of ve_swapchain_create: the minImageCount it asks for
RequestedImageCount(minImageCount, maxImageCount) ==
    IF maxImageCount > 0 /\ minImageCount + 1 > maxImageCount
    THEN maxImageCount
    ELSE minImageCount + 1

\* ve_swapchain_create_image_views on the struct sc.  allocOk: the array is
\* allocated (an allocation of 0 bytes gives NULL); viewFail: index of the
\* first vkCreateImageView that fails (sc.image_count: none)
ve_swapchain_create_image_views(sc, allocOk, viewFail) ==
    IF ~allocOk \/ sc.image_count = 0
    THEN [res |-> "VK_ERROR_OUT_OF_HOST_MEMORY", sc |-> [sc EXCEPT !.image_views = 0]]
    ELSE IF viewFail < sc.image_count
    THEN [res |-> "VK_ERROR_OUT_OF_DEVICE_MEMORY", sc |-> [sc EXCEPT !.image_views = 0]]
    ELSE [res |-> "VK_SUCCESS", sc |-> [sc EXCEPT !.image_views = sc.image_count]]

\* ve_swapchain_create, entered directly or through ve_swapchain_recreate
\* (op), with what its selections returned (surface_format, extent).
\* config: the ve_swapchain_config; surface: what the device reports for the
\* surface (formats, present modes, capabilities) and the number of images
\* vkGetSwapchainImagesKHR gives a chain on it; scRes: what
\* vkCreateSwapchainKHR answers; allocOk, viewFail: see
\* ve_swapchain_create_image_views.  The images array is taken to be
\* allocated.  last.pre: the arguments, whether a chain existed at entry
\* (rebuilt), and whether the call before was a successful
\* ve_swapchain_recreate with the same arguments.
ve_swapchain_create_chain(op, config, surface, surface_format, extent, scRes, allocOk, viewFail, dies) ==
    LET had == g_swapchain.swapchain
        sc0 == IF had THEN DestroyedChain(g_swapchain) ELSE g_swapchain
        live0 == IF had
                 THEN vk_framebuffers
                         \ DestroyedFramebuffers(g_swapchain, g_owns_framebuffers)
                 ELSE vk_framebuffers
        objects0 == IF had THEN AfterDestroy(vk_chain_objects, g_swapchain)
                    ELSE vk_chain_objects
        n == surface.images
        created == [objects0 EXCEPT !.swapchains = @ + 1]
        stored == [sc0 EXCEPT !.swapchain = TRUE, !.format = surface_format.format,
                              !.extent = extent, !.images = n, !.image_count = n]
        views == ve_swapchain_create_image_views(stored, allocOk, viewFail)
        viewsFailed == scRes = "VK_SUCCESS" /\ views.res # "VK_SUCCESS"
        oob == \/ had /\ FramebuffersReadOutOfBounds(g_swapchain, g_owns_framebuffers)
               \/ had /\ ViewsReadOutOfBounds(g_swapchain)
               \/ viewsFailed /\ FramebuffersReadOutOfBounds(views.sc, g_owns_framebuffers)
        args == [config |-> config, surface |-> surface, rebuilt |-> had,
                 repeated |-> /\ op = "ve_swapchain_recreate"
                              /\ last.op = "ve_swapchain_recreate"
                              /\ last.res = "VK_SUCCESS"
                              /\ last.pre.config = config
                              /\ last.pre.surface = surface]
        trace ==
            (IF op = "ve_swapchain_recreate" THEN ve_vulkan_wait_idle ELSE << >>)
               \o (IF had
                   THEN SwapchainDestroyTrace(g_swapchain, g_owns_framebuffers,
                                              vk_framebuffers, vk_chain_objects)
                   ELSE << >>)
               \o (IF viewsFailed
                   THEN Destroys("vkDestroyImageView",
                                 IF views.res = "VK_ERROR_OUT_OF_DEVICE_MEMORY"
                                 THEN viewFail ELSE 0, 0)
                           \o SwapchainDestroyTrace(views.sc, g_owns_framebuffers,
                                                    live0, created)
                   ELSE << >>)
    IN
    /\ alive
    /\ n >= RequestedImageCount(surface.capabilities.minImageCount,
                                surface.capabilities.maxImageCount)
    /\ dies => oob
    /\ IF dies THEN Crash(op)
       ELSE /\ IF scRes # "VK_SUCCESS"
               THEN /\ g_swapchain' = sc0
                    /\ vk_framebuffers' = live0
                    /\ vk_chain_objects' = objects0
                    /\ last' = TracedRet(trace, op, scRes, args, scRes)
               ELSE IF viewsFailed
               THEN \* the ve_swapchain_destroy of line 115
                    /\ g_swapchain' = DestroyedChain(views.sc)
                    /\ vk_framebuffers' =
                          live0 \ DestroyedFramebuffers(views.sc, g_owns_framebuffers)
                    /\ vk_chain_objects' = AfterDestroy(created, views.sc)
                    /\ last' = TracedRet(trace, op, views.res, args, scRes)
               ELSE /\ g_swapchain' = [views.sc EXCEPT !.out_of_date = FALSE,
                                                       !.framebuffers = NoArray]
                    /\ vk_framebuffers' = live0
                    /\ vk_chain_objects' =
                          [created EXCEPT !.image_views = @ + views.sc.image_views]
                    /\ last' = TracedRet(trace, op, "VK_SUCCESS", args, scRes)
            \* ve_vulkan_wait_idle ran in ve_swapchain_recreate or in a destroy
            /\ queue' = IF op = "ve_swapchain_recreate" \/ had \/ viewsFailed
                        THEN IdleQueue ELSE queue
            /\ fences' = IF op = "ve_swapchain_recreate" \/ had \/ viewsFailed
                         THEN IdleFences ELSE fences
            /\ UNCHANGED <<coreVars, alive, assertVars, mgrVars, cmd, vk_state,
                           sync_current_frame, syncObjVars, vk_current_frame,
                           g_owns_framebuffers, vk_injected>>

\* ve_swapchain_create, lines 24-56: the selections
ve_swapchain_create(op, config, surface, scRes, allocOk, viewFail, dies) ==
    ve_swapchain_create_chain(
        op, config, surface,
        ve_swapchain_choose_surface_format(surface.formats, config.preferred_format),
        ve_swapchain_choose_extent(surface.capabilities, config.width, config.height),
        scRes, allocOk, viewFail, dies)

\* ve_swapchain_recreate: ve_vulkan_wait_idle, then ve_swapchain_create
ve_swapchain_recreate(config, surface, scRes, allocOk, viewFail, dies) ==
    ve_swapchain_create("ve_swapchain_recreate", config, surface, scRes,
                        allocOk, viewFail, dies)

\* results vkAcquireNextImageKHR / vkQueuePresentKHR give
PresentResults == {"VK_SUCCESS", "VK_SUBOPTIMAL_KHR", "VK_ERROR_OUT_OF_DATE_KHR",
                   "VK_ERROR_DEVICE_LOST"}

\* ve_swapchain_acquire_next_image as it would be without line 203: a
\* Suboptimal answer does not mark the chain
acquire_next_image_suboptimal_unflagged(devRes, idx) ==
    /\ alive
    /\ g_swapchain' =
          [g_swapchain EXCEPT
              !.current_image_index =
                  IF devRes \in {"VK_SUCCESS", "VK_SUBOPTIMAL_KHR"} THEN idx ELSE @,
              !.out_of_date =
                  IF devRes = "VK_ERROR_OUT_OF_DATE_KHR" THEN TRUE ELSE @]
    /\ last' = Ret("ve_swapchain_acquire_next_image",
                   IF devRes = "VK_ERROR_OUT_OF_DATE_KHR" THEN "VK_SUBOPTIMAL_KHR"
                   ELSE IF devRes = "VK_SUBOPTIMAL_KHR" THEN "VK_SUCCESS"
                   ELSE devRes,
                   g_swapchain.out_of_date, devRes)
    /\ UNCHANGED <<coreVars, alive, assertVars, mgrVars, cmdVars, syncVars, vk_current_frame,
                   g_owns_framebuffers, vk_framebuffers, vk_injected, vk_chain_objects>>

\* ve_swapchain_acquire_next_image.  devRes: what vkAcquireNextImageKHR
\* answers; idx: the image index it writes when it hands out an image.
\* last.pre: the out-of-date flag before the call; last.dev: devRes
ve_swapchain_acquire_next_image(devRes, idx) ==
    /\ alive
    /\ g_swapchain' =
          [g_swapchain EXCEPT
              !.current_image_index =
                  IF devRes \in {"VK_SUCCESS", "VK_SUBOPTIMAL_KHR"} THEN idx ELSE @,
              !.out_of_date =
                  IF devRes \in {"VK_ERROR_OUT_OF_DATE_KHR", "VK_SUBOPTIMAL_KHR"}
                  THEN TRUE ELSE @]
    /\ last' = Ret("ve_swapchain_acquire_next_image",
                   IF devRes = "VK_ERROR_OUT_OF_DATE_KHR" THEN "VK_SUBOPTIMAL_KHR"
                   ELSE IF devRes = "VK_SUBOPTIMAL_KHR" THEN "VK_SUCCESS"
                   ELSE devRes,
                   g_swapchain.out_of_date, devRes)
    /\ UNCHANGED <<coreVars, alive, assertVars, mgrVars, cmdVars, syncVars, vk_current_frame,
                   g_owns_framebuffers, vk_framebuffers, vk_injected, vk_chain_objects>>

\* ve_swapchain_present.  devRes: what vkQueuePresentKHR answers
ve_swapchain_present(devRes) ==
    /\ alive
    /\ g_swapchain' =
          [g_swapchain EXCEPT
              !.out_of_date =
                  IF devRes \in {"VK_ERROR_OUT_OF_DATE_KHR", "VK_SUBOPTIMAL_KHR"}
                  THEN TRUE ELSE FALSE]
    /\ last' = Ret("ve_swapchain_present", devRes, g_swapchain.out_of_date, devRes)
    /\ UNCHANGED <<coreVars, alive, assertVars, mgrVars, cmdVars, syncVars, vk_current_frame,
                   g_owns_framebuffers, vk_framebuffers, vk_injected, vk_chain_objects>>

ve_swapchain_is_out_of_date == g_swapchain.out_of_date

\* ve_swapchain_set_framebuffers(framebuffers, count, owns_framebuffers).
\* The caller made the handles of `framebuffers` itself, so they exist on
\* the device.
ve_swapchain_set_framebuffers(framebuffers, count, owns_framebuffers, dies) ==
    LET oob == FramebuffersReadOutOfBounds(g_swapchain, g_owns_framebuffers) IN
    /\ alive
    /\ dies => oob
    /\ IF dies THEN Crash("ve_swapchain_set_framebuffers")
       ELSE /\ g_swapchain' = [g_swapchain EXCEPT !.framebuffers = framebuffers,
                                                  !.image_count = count]
            /\ g_owns_framebuffers' = owns_framebuffers
            /\ vk_framebuffers' =
                  (vk_framebuffers \cup Range(framebuffers))
                     \ DestroyedFramebuffers(g_swapchain, g_owns_framebuffers)
            /\ vk_injected' = IF owns_framebuffers THEN vk_injected
                              ELSE vk_injected \cup Range(framebuffers)
            /\ last' = TracedRet(
                              Destroys("vkDestroyFramebuffer",
                                       Cardinality(DestroyedFramebuffers(
                                                      g_swapchain, g_owns_framebuffers)),
                                       Cardinality(DestroyedFramebuffers(
                                                      g_swapchain, g_owns_framebuffers)
                                                      \ vk_framebuffers)),
                              "ve_swapchain_set_framebuffers", "void", TRUE, FALSE)
            /\ UNCHANGED <<coreVars, alive, assertVars, mgrVars, cmdVars, syncVars,
                           vk_current_frame, vk_chain_objects>>

\* ve_swapchain_create_framebuffers.  allocOk: the array is allocated (an
\* allocation of 0 bytes gives NULL); fbFail: index of the first
\* vkCreateFramebuffer that fails (image_count: none); dies: a read past the
\* view array, when there is one, ends the process.  last.pre: every read
\* of the call stayed inside its array; last.dev: vkCreateFramebuffer was
\* called
ve_swapchain_create_framebuffers(allocOk, fbFail, dies) ==
    LET sc == g_swapchain
        live0 == vk_framebuffers \ DestroyedFramebuffers(sc, g_owns_framebuffers)
        allocated == allocOk /\ sc.image_count > 0
        \* image_views[i] is read for every i up to the failing index
        lastRead == IF fbFail < sc.image_count THEN fbFail ELSE sc.image_count - 1
        oob == \/ FramebuffersReadOutOfBounds(sc, g_owns_framebuffers)
               \/ allocated /\ lastRead >= sc.image_views
        trace ==
            Destroys("vkDestroyFramebuffer",
                     Cardinality(DestroyedFramebuffers(sc, g_owns_framebuffers)),
                     Cardinality(DestroyedFramebuffers(sc, g_owns_framebuffers)
                                    \ vk_framebuffers))
               \o Destroys("vkDestroyFramebuffer",
                           IF allocated /\ fbFail < sc.image_count THEN fbFail ELSE 0, 0)
    IN
    /\ alive
    /\ dies => oob
    /\ IF dies THEN Crash("ve_swapchain_create_framebuffers")
       ELSE /\ IF ~allocated
               THEN /\ g_swapchain' = [sc EXCEPT !.framebuffers = NoArray]
                    /\ g_owns_framebuffers' = g_owns_framebuffers
                    /\ vk_framebuffers' = live0
                    /\ last' = TracedRet(trace, "ve_swapchain_create_framebuffers",
                                   "VK_ERROR_OUT_OF_HOST_MEMORY", ~oob, FALSE)
               ELSE IF fbFail < sc.image_count
               THEN \* framebuffers 0 .. fbFail-1 were created and are destroyed
                    /\ g_swapchain' = [sc EXCEPT !.framebuffers = NoArray]
                    /\ g_owns_framebuffers' = TRUE
                    /\ vk_framebuffers' = live0
                    /\ last' = TracedRet(trace, "ve_swapchain_create_framebuffers",
                                   "VK_ERROR_OUT_OF_DEVICE_MEMORY", ~oob, TRUE)
               ELSE /\ g_swapchain' =
                          [sc EXCEPT !.framebuffers = FreshHandles(live0, sc.image_count)]
                    /\ g_owns_framebuffers' = TRUE
                    /\ vk_framebuffers' =
                          live0 \cup Range(FreshHandles(live0, sc.image_count))
                    /\ last' = TracedRet(trace, "ve_swapchain_create_framebuffers", "VK_SUCCESS",
                                   ~oob, TRUE)
            /\ UNCHANGED <<coreVars, alive, assertVars, mgrVars, cmdVars, syncVars,
                           vk_current_frame, vk_injected, vk_chain_objects>>

\* the caller destroys a framebuffer of its own that the chain does not
\* refer to
vkDestroyFramebuffer(h) ==
    /\ alive
    /\ h \in vk_framebuffers
    /\ h \notin Range(g_swapchain.framebuffers)
    /\ vk_framebuffers' = vk_framebuffers \ {h}
    /\ vk_injected' = vk_injected \ {h}
    /\ last' = Ret("vkDestroyFramebuffer", "void", TRUE, FALSE)
    /\ UNCHANGED <<coreVars, alive, assertVars, mgrVars, cmdVars, syncVars, vk_current_frame,
                   g_swapchain, g_owns_framebuffers, vk_chain_objects>>

(* ------------------------------------------------------------------ *)
(* Thread pool (core/thread.c)                                         *)
(* ------------------------------------------------------------------ *)
\* ve_thread_pool_create(num_threads): the workers it starts
Workers == 1 .. NumWorkers
\* the threads that call ve_thread_pool_submit
Callers == 1 .. NumCallers
\* a task is named by the order in which it was handed to submit
Tasks == 1 .. MaxTasks
\* the entries of pool->task_queue
QueueSlots == 0 .. (queue_capacity - 1)
\* an entry that was never written
NoTask == 0

\* ve_thread_pool_create: the pool it returns, its workers at the top of
\* their loop
CreatedPool ==
    [shutdown |-> FALSE, queue_head |-> 0, queue_count |-> 0,
     task_queue |-> [i \in QueueSlots |-> NoTask], task_semaphore |-> 0,
     freed |-> FALSE]

CreatedWorkers == [w \in Workers |-> [pc |-> "loop", task |-> NoTask]]

\* the pool as ve_thread_pool_create returns it; no call was made on it
InitPool ==
    /\ pool = CreatedPool
    /\ worker = CreatedWorkers
    /\ submitting = [c \in Callers |-> NoTask]
    /\ submit_result = [c \in Callers |-> "none"]
    /\ issued = {}
    /\ submitted = {}
    /\ executed = [t \in Tasks |-> 0]
    /\ waiter = [pc |-> "idle", before |-> {}]

\* ve_thread_pool_wait: "while (pool->queue_count > 0)" is left
WaitLoopLeft(count) == ~(count > 0)

\* a worker that leaves queue_head where it was
queue_head_not_advanced(head) == head

\* worker_thread: queue_head = (queue_head + 1) % queue_capacity
AdvancedHead(head) == (head + 1) % queue_capacity

\* ve_thread_pool_submit: tail = (queue_head + queue_count) % queue_capacity
QueueTail(p) == (p.queue_head + p.queue_count) % queue_capacity

\* ve_semaphore_signal on the pool's semaphore, whose max_count is UINT32_MAX
ve_semaphore_signal(p) == [p EXCEPT !.task_semaphore = @ + 1]

\* the task a caller hands over next
NextTask == Cardinality(issued) + 1

\* ve_thread_pool_submit up to the unlock of queue_mutex: the queue is full
\* and the call returns false, or the task is written at the tail
ve_thread_pool_submit(c) ==
    /\ ~pool.shutdown
    /\ submitting[c] = NoTask
    /\ NextTask \in Tasks
    /\ issued' = issued \cup {NextTask}
    /\ IF pool.queue_count >= queue_capacity
       THEN /\ submit_result' = [submit_result EXCEPT ![c] = "false"]
            /\ UNCHANGED <<pool, submitting>>
       ELSE /\ pool' = [pool EXCEPT !.task_queue[QueueTail(pool)] = NextTask,
                                    !.queue_count = @ + 1]
            /\ submitting' = [submitting EXCEPT ![c] = NextTask]
            /\ submit_result' = [submit_result EXCEPT ![c] = "none"]
    /\ UNCHANGED <<worker, submitted, executed, waiter, rendererVars>>

\* ve_thread_pool_submit from the unlock on: signals the semaphore and
\* returns true
ve_thread_pool_submit_signal(c) ==
    /\ submitting[c] # NoTask
    /\ pool' = ve_semaphore_signal(pool)
    /\ submitted' = submitted \cup {submitting[c]}
    /\ submitting' = [submitting EXCEPT ![c] = NoTask]
    /\ submit_result' = [submit_result EXCEPT ![c] = "true"]
    /\ UNCHANGED <<worker, issued, executed, waiter, rendererVars>>

\* worker_thread: "while (!pool->shutdown)"
worker_loop_test(w) ==
    /\ ~pool.freed
    /\ worker[w].pc = "loop"
    /\ worker' = [worker EXCEPT ![w].pc = IF pool.shutdown THEN "exited"
                                          ELSE "semaphore_wait"]
    /\ UNCHANGED <<pool, callerVars, executed, waiter, rendererVars>>

\* worker_thread: ve_semaphore_wait(pool->task_semaphore, 100) takes a count,
\* or times out with the count at 0 and the loop continues
worker_semaphore_wait(w) ==
    /\ worker[w].pc = "semaphore_wait"
    /\ IF pool.task_semaphore > 0
       THEN /\ pool' = [pool EXCEPT !.task_semaphore = @ - 1]
            /\ worker' = [worker EXCEPT ![w].pc = "lock"]
       ELSE /\ worker' = [worker EXCEPT ![w].pc = "loop"]
            /\ UNCHANGED pool
    /\ UNCHANGED <<callerVars, executed, waiter, rendererVars>>

\* worker_thread from ve_mutex_lock to ve_mutex_unlock: an empty queue sends
\* the worker back to the loop, else it takes the entry at queue_head
worker_take(w) ==
    /\ worker[w].pc = "lock"
    /\ IF pool.queue_count = 0
       THEN /\ worker' = [worker EXCEPT ![w].pc = "loop"]
            /\ UNCHANGED pool
       ELSE /\ worker' = [worker EXCEPT ![w] =
                             [pc |-> "task", task |-> pool.task_queue[pool.queue_head]]]
            /\ pool' = [pool EXCEPT !.queue_head = AdvancedHead(@),
                                    !.queue_count = @ - 1]
    /\ UNCHANGED <<callerVars, executed, waiter, rendererVars>>

\* worker_thread: "if (task) task(task_data)"
worker_run(w) ==
    /\ worker[w].pc = "task"
    /\ executed' = IF worker[w].task # NoTask
                   THEN [executed EXCEPT ![worker[w].task] = @ + 1]
                   ELSE executed
    /\ worker' = [worker EXCEPT ![w] = [pc |-> "loop", task |-> NoTask]]
    /\ UNCHANGED <<pool, callerVars, waiter, rendererVars>>

worker_thread(w) ==
    \/ worker_loop_test(w)
    \/ worker_semaphore_wait(w)
    \/ worker_take(w)
    \/ worker_run(w)

\* ve_thread_pool_wait is entered; `before` keeps the tasks whose submit had
\* returned true by then
ve_thread_pool_wait_call ==
    /\ ~pool.shutdown
    /\ waiter.pc # "polling"
    /\ waiter' = [pc |-> "polling", before |-> submitted]
    /\ UNCHANGED <<pool, worker, callerVars, executed, rendererVars>>

\* ve_thread_pool_wait: the loop reads queue_count without the mutex and
\* returns when it is 0 (a pass that sleeps changes nothing)
ve_thread_pool_wait_return ==
    /\ waiter.pc = "polling"
    /\ WaitLoopLeft(pool.queue_count)
    /\ waiter' = [waiter EXCEPT !.pc = "returned"]
    /\ UNCHANGED <<pool, worker, callerVars, executed, rendererVars>>

\* ve_thread_pool_destroy up to the joins: shutdown is set and the semaphore
\* is signalled once per worker.  No other call on the pool is in progress.
ve_thread_pool_destroy ==
    /\ ~pool.shutdown
    /\ waiter.pc # "polling"
    /\ \A c \in Callers : submitting[c] = NoTask
    /\ pool' = [pool EXCEPT !.shutdown = TRUE,
                            !.task_semaphore = @ + NumWorkers]
    /\ UNCHANGED <<worker, callerVars, executed, waiter, rendererVars>>

\* ve_thread_pool_destroy from the joins on: every worker has returned, the
\* queue and the pool are freed
ve_thread_pool_destroy_join ==
    /\ pool.shutdown
    /\ ~pool.freed
    /\ \A w \in Workers : worker[w].pc = "exited"
    /\ pool' = [pool EXCEPT !.freed = TRUE]
    /\ UNCHANGED <<worker, callerVars, executed, waiter, rendererVars>>

(* ------------------------------------------------------------------ *)
(* Arena and pool allocators (core/memory.c)                           *)
(* ------------------------------------------------------------------ *)
\* size_t arithmetic wraps at 2^SizeBits
SIZE_MAX == Pow2(SizeBits) - 1

SizeT(x) == x % Pow2(SizeBits)

\* x & ~m on size_t values
RECURSIVE BitAndNot(_, _)
BitAndNot(x, m) ==
    IF x = 0 THEN 0
    ELSE (x % 2) * (1 - (m % 2)) + 2 * BitAndNot(x \div 2, m \div 2)

\* ve_align_size: (size + alignment - 1) & ~(alignment - 1), 0 standing for
\* VE_MEMORY_ALIGNMENT
ve_align_size(size, alignment) ==
    LET a == IF alignment = 0 THEN VE_MEMORY_ALIGNMENT ELSE alignment
    IN BitAndNot(SizeT(size + a - 1), a - 1)

\* a NULL ve_arena pointer, and the arenas the callers make: the second one
\* may be given the first as its parent
NoArenaId == 0
ArenaIds == {1, 2}
NoArena == << >>
NullPtr == << >>

\* ve_arena_create(capacity, alignment, parent) when its allocations succeed
ve_arena_created(capacity, alignment, parent) ==
    [capacity |-> capacity, used |-> 0,
     alignment |-> IF alignment = 0 THEN VE_MEMORY_ALIGNMENT ELSE alignment,
     parent |-> parent]

\* ve_arena_get_usage
ve_arena_get_usage(a) == IF a = NoArenaId THEN 0 ELSE arenas[a].used

\* ve_arena_allocate(arena, size) on the arenas `as`: the arenas after the
\* call, the pointer returned (arena and offset into its memory) and the
\* arena that served the request.  The parent is asked for the aligned size.
RECURSIVE ArenaAllocate(_, _, _)
ArenaAllocate(as, a, size) ==
    IF a = NoArenaId \/ size = 0
    THEN [arenas |-> as, ptr |-> NullPtr, by |-> NoArenaId]
    ELSE LET aligned == ve_align_size(size, as[a].alignment) IN
         IF SizeT(as[a].used + aligned) > as[a].capacity
         THEN IF as[a].parent # NoArenaId
              THEN ArenaAllocate(as, as[a].parent, aligned)
              ELSE [arenas |-> as, ptr |-> NullPtr, by |-> NoArenaId]
         ELSE [arenas |-> [as EXCEPT ![a].used = SizeT(@ + aligned)],
               ptr |-> <<a, as[a].used>>, by |-> a]

\* ve_arena_create; ok: malloc and posix_memalign gave memory
ve_arena_create(a, capacity, alignment, parent, ok) ==
    /\ arenas[a] = NoArena
    /\ arenas' = IF ok
                 THEN [arenas EXCEPT ![a] = ve_arena_created(capacity, alignment, parent)]
                 ELSE arenas
    /\ last' = Ret("ve_arena_create", IF ok THEN a ELSE NoArenaId, capacity, alignment)
    /\ UNCHANGED <<memPoolVars, poolVars, rendererState>>

\* ve_arena_destroy of an arena that is no other arena's parent
ve_arena_destroy(a) ==
    /\ arenas[a] # NoArena
    /\ \A b \in ArenaIds : arenas[b] # NoArena => arenas[b].parent # a
    /\ arenas' = [arenas EXCEPT ![a] = NoArena]
    /\ last' = Ret("ve_arena_destroy", "void", a, FALSE)
    /\ UNCHANGED <<memPoolVars, poolVars, rendererState>>

ve_arena_allocate(a, size) ==
    LET r == ArenaAllocate(arenas, a, size) IN
    /\ arenas[a] # NoArena
    /\ arenas' = r.arenas
    /\ last' = Ret("ve_arena_allocate", r.ptr,
                   [arena |-> a, size |-> size, usage |-> ve_arena_get_usage(a)], r.by)
    /\ UNCHANGED <<memPoolVars, poolVars, rendererState>>

ve_arena_reset(a) ==
    /\ arenas[a] # NoArena
    /\ arenas' = [arenas EXCEPT ![a].used = 0]
    /\ last' = Ret("ve_arena_reset", "void", a, FALSE)
    /\ UNCHANGED <<memPoolVars, poolVars, rendererState>>

\* ve_arena_set_position: a position above `used` is ignored
ve_arena_set_position(a, position) ==
    /\ arenas[a] # NoArena
    /\ arenas' = IF position <= arenas[a].used
                 THEN [arenas EXCEPT ![a].used = position]
                 ELSE arenas
    /\ last' = Ret("ve_arena_set_position", "void", a, position)
    /\ UNCHANGED <<memPoolVars, poolVars, rendererState>>

\* ve_pool_create(element_size, capacity): the pool's blocks are named by
\* their byte offset into pool->memory; NullElement is the NULL pointer
NullElement == -1

PoolElementSize == ve_align_size(pool_element_size, VE_MEMORY_ALIGNMENT)

Elements == {i * PoolElementSize : i \in 0 .. (pool_capacity - 1)}

CreatedMemPool ==
    [element_size |-> PoolElementSize, capacity |-> pool_capacity, used |-> 0,
     free_list |-> NullElement]

\* what the first word of a block may hold: any pointer value
Words == Elements \cup {NullElement}

InitMemPool ==
    /\ ve_pool = CreatedMemPool
    /\ pool_words = [e \in Elements |-> NullElement]
    /\ pool_allocated = {}
    /\ arenas = [a \in ArenaIds |-> NoArena]

\* ve_pool_contains
ve_pool_contains(p, ptr) ==
    ptr # NullElement /\ ptr >= 0 /\ ptr < p.capacity * p.element_size

\* an allocation that leaves the free list as it was
free_list_not_popped(p, words) == p

\* ve_pool_allocate, free list branch: free_list = *(void**)free_list
PoppedFreeList(p, words) == [p EXCEPT !.free_list = words[p.free_list]]

\* a free that forgets the block
free_dropping_element(p, element) == p

\* ve_pool_free: pool->free_list = element
PushedFreeList(p, element) == [p EXCEPT !.free_list = element]

\* ve_pool_allocate: the free list's head, else the next unused block, else
\* NULL
ve_pool_allocate ==
    LET element == IF ve_pool.free_list # NullElement THEN ve_pool.free_list
                   ELSE IF ve_pool.used >= ve_pool.capacity THEN NullElement
                   ELSE ve_pool.used * ve_pool.element_size
    IN
    /\ ve_pool' = IF ve_pool.free_list # NullElement
                  THEN PoppedFreeList(ve_pool, pool_words)
                  ELSE IF ve_pool.used >= ve_pool.capacity THEN ve_pool
                  ELSE [ve_pool EXCEPT !.used = @ + 1]
    /\ pool_allocated' = pool_allocated \cup ({element} \ {NullElement})
    /\ last' = Ret("ve_pool_allocate", element, pool_allocated, FALSE)
    /\ UNCHANGED <<pool_words, arenas, poolVars, rendererState>>

\* ve_pool_free(pool, element): NULL is ignored; the caller frees blocks it
\* holds
ve_pool_free(element) ==
    /\ element \in pool_allocated \cup {NullElement}
    /\ IF element = NullElement
       THEN UNCHANGED <<ve_pool, pool_words>>
       ELSE /\ pool_words' = [pool_words EXCEPT ![element] = ve_pool.free_list]
            /\ ve_pool' = PushedFreeList(ve_pool, element)
    /\ pool_allocated' = pool_allocated \ {element}
    /\ last' = Ret("ve_pool_free", "void", element, FALSE)
    /\ UNCHANGED <<arenas, poolVars, rendererState>>

\* ve_pool_reset: every block is free again
ve_pool_reset ==
    /\ ve_pool' = [ve_pool EXCEPT !.used = 0, !.free_list = NullElement]
    /\ pool_allocated' = {}
    /\ last' = Ret("ve_pool_reset", "void", TRUE, FALSE)
    /\ UNCHANGED <<pool_words, arenas, poolVars, rendererState>>

\* the holder of a block stores a value into its first word
pool_element_write(element, word) ==
    /\ element \in pool_allocated
    /\ pool_words[element] # word
    /\ pool_words' = [pool_words EXCEPT ![element] = word]
    /\ UNCHANGED <<ve_pool, pool_allocated, arenas, poolVars, rendererState, last>>

(* ------------------------------------------------------------------ *)
(* main.c: the shutdown of the engine                                  *)
(* ------------------------------------------------------------------ *)
\* shutdown_engine (main.c:176-191): ve_vulkan_wait_idle, then
\* ve_command_buffer_shutdown, ve_swapchain_destroy and ve_sync_shutdown in
\* that order; ve_vulkan_shutdown and the calls after it end the program.
\* dies: the out-of-bounds read of ve_swapchain_destroy, when there is one,
\* ends the process before the chain is touched
shutdown_engine(dies) ==
    LET oob == \/ FramebuffersReadOutOfBounds(g_swapchain, g_owns_framebuffers)
               \/ ViewsReadOutOfBounds(g_swapchain)
        managerTrace ==
            ve_vulkan_wait_idle
                \o CommandBufferShutdownTrace(g_command_pools, g_frame_command_buffers)
    IN
    /\ alive
    /\ dies => oob
    /\ alive' = FALSE
    /\ ShutdownState
    /\ queue' = IdleQueue
    /\ IF dies
       THEN /\ last' = TracedRet(managerTrace, "shutdown_engine", "CRASH", TRUE, FALSE)
            /\ UNCHANGED <<syncVars, swapVars>>
       ELSE /\ g_swapchain' = DestroyedChain(g_swapchain)
            /\ vk_framebuffers' =
                  vk_framebuffers \ DestroyedFramebuffers(g_swapchain, g_owns_framebuffers)
            /\ vk_chain_objects' = AfterDestroy(vk_chain_objects, g_swapchain)
            /\ vk_sync_objects' =
                  vk_sync_objects - Cardinality(SyncShutdownDestroys(fences, sync_handles))
            /\ fences' = NoFences
            /\ sync_handles' = NoSyncHandles
            /\ sync_current_frame' = 0
            /\ last' = TracedRet(managerTrace
                                    \o SwapchainDestroyTrace(g_swapchain,
                                                             g_owns_framebuffers,
                                                             vk_framebuffers,
                                                             vk_chain_objects)
                                    \o SyncShutdownTrace(fences, sync_handles,
                                                         vk_sync_objects),
                                 "shutdown_engine", "void", TRUE, FALSE)
            /\ UNCHANGED <<g_owns_framebuffers, vk_injected>>
    /\ UNCHANGED <<coreVars, assertVars, cmd, vk_state, vk_current_frame>>

(* ------------------------------------------------------------------ *)
(* Specifications                                                      *)
(* ------------------------------------------------------------------ *)
Start == Ret("start", "void", TRUE, FALSE)

\* the statics as the loader leaves them; the ve_command_buffer structs the
\* callers hold are filled as ve_command_buffer_allocate fills them
InitCommon ==
    /\ alive = TRUE
    /\ g_assert_mode = "VE_ASSERT_MODE_DEBUG_BREAK"
    /\ g_assert_callback = FALSE
    /\ g_initialized = FALSE
    /\ g_command_pools = NoPools
    /\ g_frame_command_buffers = NoFrameBuffers
    /\ vk_command_pools = 0
    /\ cmd = [c \in DrivenBufs |-> FreshCmd]
    /\ vk_state = [c \in DrivenBufs |-> "initial"]
    /\ queue = [l \in DrivenLanes |-> << >>]
    /\ sync_current_frame = 0
    /\ vk_current_frame = 0
    /\ g_swapchain = ZeroSwapchain
    /\ g_owns_framebuffers = FALSE
    /\ vk_framebuffers = {}
    /\ vk_injected = {}
    /\ vk_chain_objects = [swapchains |-> 0, image_views |-> 0]
    /\ last = Start
    /\ InitPool
    /\ queue_arg = VE_COMMAND_BUFFER_GRAPHICS
    /\ InitMemPool

\* g_sync_state = {0} (sync.c:17): no fence and no semaphore exists
NoSync ==
    /\ fences = NoFences
    /\ sync_handles = NoSyncHandles
    /\ vk_sync_objects = 0

\* the fences and semaphores one successful ve_sync_init creates
FrameObjects == Cardinality(Slots \X FramePrimitives)

\* a submit is armed with the current slot's render fence, or with none
FenceArgs ==
    {NoFence} \cup {{s} : s \in {t \in {ve_sync_get_current_frame} : fences[t] # "null"}}

\* what an installed assert callback may answer; it is asked in callback
\* mode only
CbAnswers ==
    IF g_assert_mode = "VE_ASSERT_MODE_CALLBACK" /\ g_assert_callback
    THEN BOOLEAN ELSE {FALSE}

\* device allocations that ve_command_buffer_init may see fail: the first,
\* one of the second frame slot, none
AllocFailInputs == {0, NumLanes + 1, NumAllocs}

Begin ==
    \E c \in DrivenBufs, r \in DevResults, cb \in CbAnswers :
        alive /\ ve_command_buffer_begin(c, r, cb, "ve_command_buffer_begin")

End ==
    \E c \in DrivenBufs, r \in DevResults, cb \in CbAnswers :
        alive /\ ve_command_buffer_end(c, r, cb, "ve_command_buffer_end")

Submit ==
    \E c \in DrivenBufs, f \in FenceArgs, q \in BOOLEAN, r \in DevResults,
       cb \in CbAnswers :
        /\ alive
        /\ Len(queue[BufLane(c)]) < MaxQueue
        /\ ve_command_buffer_submit(c, f, q, r, cb, "ve_command_buffer_submit")
        /\ UNCHANGED queue_arg

\* the caller passes the graphics or the transfer queue of the device
SubmitSimple ==
    \E c \in DrivenBufs, a \in {VE_COMMAND_BUFFER_GRAPHICS, VE_COMMAND_BUFFER_TRANSFER},
       f \in FenceArgs, q \in BOOLEAN, r \in DevResults, cb \in CbAnswers :
        /\ alive
        /\ Len(queue[BufLane(c)]) < MaxQueue
        /\ ve_command_buffer_submit_simple(c, a, f, q, r, cb)

BeginFrame ==
    \E t \in DrivenLanes, r \in DevResults, cb \in CbAnswers :
        alive /\ ve_command_buffer_begin_frame(t, r, cb)

EndFrame ==
    \E c \in DrivenBufs \cup {NoBuf}, r \in DevResults, cb \in CbAnswers :
        alive /\ ve_command_buffer_end_frame(c, r, cb)

CommandBufferInit ==
    \E pf \in 0 .. NumLanes, af \in AllocFailInputs : ve_command_buffer_init(pf, af)

CommandBufferShutdown == ve_command_buffer_shutdown

AssertSetMode == \E m \in AssertModes : ve_assert_set_mode(m)

AssertSetCallback == \E b \in BOOLEAN : ve_assert_set_callback(b)

Complete == \E l \in DOMAIN queue : GpuComplete(l)

\* the frame calls are made on a registry that ve_sync_init has filled
WaitForFrame ==
    \E lost \in BOOLEAN :
        fences[ve_sync_get_current_frame] # "null" /\ ve_sync_wait_for_frame(lost)

ResetFrame ==
    \E r \in DevResults :
        fences[ve_sync_get_current_frame] # "null" /\ ve_sync_reset_frame(r)

\* ve_sync_init, called again without a shutdown, leaves the objects of the
\* call before on the device: the calls are counted up to MaxSyncInits
SyncInit ==
    \E fail \in {NoFailure} \cup SyncFailures :
        /\ vk_sync_objects + FrameObjects <= MaxSyncInits * FrameObjects
        /\ ve_sync_init(fail)

\* SpecCmd: the command buffer manager and the calls on command buffers,
\* under every assert mode; sync is not initialised (no fence exists)
InitCmd ==
    /\ InitCommon
    /\ NoSync

NextCmd ==
    \/ AssertSetMode
    \/ AssertSetCallback
    \/ CommandBufferInit
    \/ CommandBufferShutdown
    \/ Begin
    \/ End
    \/ Submit
    \/ SubmitSimple
    \/ BeginFrame
    \/ EndFrame
    \/ Complete

SpecCmd == InitCmd /\ [][NextCmd]_vars

\* SpecChoose: the three selections of ve_swapchain_create, each applied to
\* what a surface may report and a configuration may ask for
OfferedFormats == SeqsUpTo(SurfaceFormats, MaxOffered)
OfferedModes == SeqsUpTo(PresentModes, MaxOffered)

\* widths and heights: window sizes, and sizes around 2^FLT_MANT_DIG
Lengths == {1, 800, Pow2(FLT_MANT_DIG) + 1, Pow2(FLT_MANT_DIG) + 3}

Extents == [width : Lengths, height : Lengths]

\* VkSurfaceCapabilitiesKHR: a surface with an extent of its own (the
\* limits then equal it), or one without, whose limits are ordered
SurfaceCapabilities ==
    {[currentExtent |-> e, minImageExtent |-> e, maxImageExtent |-> e] :
        e \in {[width |-> 800, height |-> 600]}}
    \cup {[currentExtent |-> [width |-> UINT32_MAX, height |-> UINT32_MAX],
           minImageExtent |-> [width |-> r[1], height |-> r[1]],
           maxImageExtent |-> [width |-> r[2], height |-> r[2]]] :
             r \in {p \in Lengths \X Lengths : p[1] <= p[2]}}

ChooseSurfaceFormat ==
    \E formats \in OfferedFormats,
       preferred \in {NoPreferred} \cup {{f} : f \in SurfaceFormats} :
        choose_surface_format(formats, preferred)

ChoosePresentMode ==
    \E modes \in OfferedModes, vsync \in BOOLEAN, triple_buffering \in BOOLEAN :
        choose_present_mode(modes, vsync, triple_buffering)

ChooseExtent ==
    \E capabilities \in SurfaceCapabilities, e \in Extents :
        choose_extent(capabilities, e.width, e.height)

NextChoose ==
    \/ ChooseSurfaceFormat
    \/ ChoosePresentMode
    \/ ChooseExtent

InitChoose ==
    /\ InitCommon
    /\ NoSync

SpecChoose == InitChoose /\ [][NextChoose]_vars

\* SpecMgr: the life of the command buffer manager and the recording calls,
\* with nothing submitted
NextMgr ==
    \/ AssertSetMode
    \/ AssertSetCallback
    \/ CommandBufferInit
    \/ CommandBufferShutdown
    \/ Begin
    \/ End
    \/ BeginFrame
    \/ EndFrame

SpecMgr == InitCmd /\ [][NextMgr]_vars

\* SpecSync: the sync registry on its own, from the zeroed static
InitSync ==
    /\ InitCommon
    /\ NoSync

NextSync ==
    \/ SyncInit
    \/ ve_sync_shutdown
    \/ WaitForFrame
    \/ ResetFrame
    \/ ve_sync_advance_frame

SpecSync == InitSync /\ [][NextSync]_vars

\* SpecFrame: the frame cycle after a successful ve_sync_init (every render
\* fence created signaled, sync.c:34), default assert mode
InitFrame ==
    /\ InitCommon
    /\ fences = CreatedFences(NoFailure)
    /\ sync_handles = CreatedHandles(NoFailure)
    /\ vk_sync_objects = FrameObjects

NextFrame ==
    \/ WaitForFrame
    \/ ResetFrame
    \/ Begin
    \/ BeginFrame
    \/ End
    \/ Submit
    \/ ve_sync_advance_frame
    \/ ve_vulkan_advance_frame
    \/ Complete

SpecFrame == InitFrame /\ [][NextFrame]_vars

\* SpecSlots: the two frame counters and the calls that set them
NextSlots ==
    \/ SyncInit
    \/ ve_sync_shutdown
    \/ ve_sync_advance_frame
    \/ ve_vulkan_advance_frame

SpecSlots == InitSync /\ [][NextSlots]_vars

\* SpecSwap: the swapchain controller driven by any caller; the device
\* answers every call as it likes
\* a surface with an extent of its own, any number of images and one
\* format, for a window of another size that asks for no format
FixedSurface ==
    [formats |-> <<[format |-> "VK_FORMAT_B8G8R8A8_UNORM",
                    colorSpace |-> "VK_COLOR_SPACE_SRGB_NONLINEAR_KHR"]>>,
     present_modes |-> <<"VK_PRESENT_MODE_FIFO_KHR">>,
     capabilities |-> [minImageCount |-> 1, maxImageCount |-> 0,
                       currentExtent |-> [width |-> 800, height |-> 600],
                       minImageExtent |-> [width |-> 800, height |-> 600],
                       maxImageExtent |-> [width |-> 800, height |-> 600]],
     images |-> 2]
WindowConfig ==
    [width |-> 640, height |-> 480, vsync |-> TRUE, triple_buffering |-> FALSE,
     preferred_format |-> NoPreferred]

\* a surface without an extent, with a fixed number of images and two
\* formats, for a window larger than its limit that asks for the first
FreeSurface ==
    [formats |-> <<[format |-> "VK_FORMAT_B8G8R8A8_UNORM",
                    colorSpace |-> "VK_COLOR_SPACE_SRGB_NONLINEAR_KHR"],
                   [format |-> "VK_FORMAT_B8G8R8A8_SRGB",
                    colorSpace |-> "VK_COLOR_SPACE_SRGB_NONLINEAR_KHR"]>>,
     present_modes |-> <<"VK_PRESENT_MODE_FIFO_KHR", "VK_PRESENT_MODE_MAILBOX_KHR">>,
     capabilities |-> [minImageCount |-> MaxImages - 1,
                       maxImageCount |-> MaxImages - 1,
                       currentExtent |-> [width |-> UINT32_MAX, height |-> UINT32_MAX],
                       minImageExtent |-> [width |-> 1, height |-> 1],
                       maxImageExtent |-> [width |-> 800, height |-> 800]],
     images |-> MaxImages]
LargeConfig ==
    [width |-> 1024, height |-> 768, vsync |-> FALSE, triple_buffering |-> TRUE,
     preferred_format |-> {[format |-> "VK_FORMAT_B8G8R8A8_UNORM",
                            colorSpace |-> "VK_COLOR_SPACE_SRGB_NONLINEAR_KHR"]}]

\* <<config, surface>> of a build
ChainInputs == {<<WindowConfig, FixedSurface>>, <<LargeConfig, FreeSurface>>}

\* image views that no struct refers to any more
LeakedViews(objects, sc) == objects.image_views - sc.image_views

\* <<allocOk, viewFail>>: the array allocation fails, the first or the second
\* vkCreateImageView fails, nothing fails
ImageViewInputs == {<<FALSE, 0>>, <<TRUE, 0>>, <<TRUE, 1>>, <<TRUE, MaxImages>>}

\* <<scRes, allocOk, viewFail>>: vkCreateSwapchainKHR fails (nothing after it
\* is reached), or it succeeds and the image views are made as above
CreateAnswers ==
    {<<"VK_ERROR_DEVICE_LOST", TRUE, 0>>}
        \cup {<<"VK_SUCCESS", v[1], v[2]>> : v \in ImageViewInputs}

\* image views that chains left on the device are counted up to MaxLeaked
SwapchainCreate ==
    \E ch \in ChainInputs, a \in CreateAnswers, d \in BOOLEAN :
        /\ ve_swapchain_create("ve_swapchain_create", ch[1], ch[2], a[1],
                               a[2], a[3], d)
        /\ LeakedViews(vk_chain_objects', g_swapchain') <= MaxLeaked

SwapchainRecreate ==
    \E ch \in ChainInputs, a \in CreateAnswers, d \in BOOLEAN :
        /\ ve_swapchain_recreate(ch[1], ch[2], a[1], a[2], a[3], d)
        /\ LeakedViews(vk_chain_objects', g_swapchain') <= MaxLeaked

SwapchainDestroy ==
    \E d \in BOOLEAN :
        /\ ve_swapchain_destroy(d)
        /\ LeakedViews(vk_chain_objects', g_swapchain') <= MaxLeaked

\* the calls of a frame are made on a chain that was built
AcquireNextImage ==
    \E r \in PresentResults, i \in {0, g_swapchain.images - 1} :
        g_swapchain.swapchain /\ ve_swapchain_acquire_next_image(r, i)

Present ==
    \E r \in PresentResults : g_swapchain.swapchain /\ ve_swapchain_present(r)

SetFramebuffers ==
    \E count \in {1, MaxImages - 1}, owns \in BOOLEAN, d \in BOOLEAN :
        /\ HandlesLeft(vk_framebuffers) >= count
        /\ ve_swapchain_set_framebuffers(FreshHandles(vk_framebuffers, count),
                                         count, owns, d)

CreateFramebuffers ==
    \E a \in BOOLEAN, ff \in 0 .. g_swapchain.image_count, d \in BOOLEAN :
        /\ HandlesLeft(vk_framebuffers
                          \ DestroyedFramebuffers(g_swapchain, g_owns_framebuffers))
              >= g_swapchain.image_count
        /\ ve_swapchain_create_framebuffers(a, ff, d)

CallerDestroysFramebuffer == \E h \in Handles : vkDestroyFramebuffer(h)

InitSwap ==
    /\ InitCommon
    /\ NoSync

NextSwap ==
    \/ SwapchainCreate
    \/ SwapchainRecreate
    \/ SwapchainDestroy
    \/ AcquireNextImage
    \/ Present
    \/ SetFramebuffers
    \/ CreateFramebuffers
    \/ CallerDestroysFramebuffer

SpecSwap == InitSwap /\ [][NextSwap]_vars

\* SpecPresent: chains built and rebuilt, and the calls of a frame on them
NextPresent ==
    \/ SwapchainCreate
    \/ SwapchainRecreate
    \/ SwapchainDestroy
    \/ AcquireNextImage
    \/ Present

SpecPresent == InitSwap /\ [][NextPresent]_vars

\* SpecFramebuffers: chains built and rebuilt, and their framebuffers
NextFramebuffers ==
    \/ SwapchainCreate
    \/ SwapchainRecreate
    \/ SwapchainDestroy
    \/ SetFramebuffers
    \/ CreateFramebuffers
    \/ CallerDestroysFramebuffer

SpecFramebuffers == InitSwap /\ [][NextFramebuffers]_vars

\* SpecTeardown: the init and teardown calls of the three renderer modules
\* in any order, and the shutdown of the engine
ShutdownEngine == \E d \in BOOLEAN : shutdown_engine(d)

NextTeardown ==
    \/ SyncInit
    \/ ve_sync_shutdown
    \/ CommandBufferInit
    \/ CommandBufferShutdown
    \/ SwapchainCreate
    \/ SwapchainDestroy
    \/ CreateFramebuffers
    \/ ShutdownEngine

SpecTeardown == InitSwap /\ [][NextTeardown]_vars

\* SpecPool: the thread pool between ve_thread_pool_create and the end of
\* ve_thread_pool_destroy, its callers and its workers interleaved freely
InitPoolSpec == InitCommon /\ NoSync

PoolSubmit == \E c \in Callers : ve_thread_pool_submit(c)

PoolSubmitSignal == \E c \in Callers : ve_thread_pool_submit_signal(c)

WorkerThread == \E w \in Workers : worker_thread(w)

NextPool ==
    \/ PoolSubmit
    \/ PoolSubmitSignal
    \/ WorkerThread
    \/ ve_thread_pool_wait_call
    \/ ve_thread_pool_wait_return
    \/ ve_thread_pool_destroy
    \/ ve_thread_pool_destroy_join

SpecPool == InitPoolSpec /\ [][NextPool]_vars

\* SpecPoolFair: the scheduler lets every worker thread, and every caller
\* that is inside ve_thread_pool_submit, run again
SpecPoolFair ==
    /\ SpecPool
    /\ \A w \in Workers : WF_vars(worker_thread(w))
    /\ \A c \in Callers : WF_vars(ve_thread_pool_submit_signal(c))

\* SpecMemPool: one ve_pool and the callers that hold its blocks
PoolFree == \E e \in Elements \cup {NullElement} : ve_pool_free(e)

PoolElementWrite == \E e \in Elements, w \in Words : pool_element_write(e, w)

NextMemPool ==
    \/ ve_pool_allocate
    \/ PoolFree
    \/ ve_pool_reset
    \/ PoolElementWrite

SpecMemPool == InitPoolSpec /\ [][NextMemPool]_vars

\* SpecArena: two arenas, the second one made with or without the first as
\* its parent; requests of a few bytes and of nearly SIZE_MAX bytes
ArenaCapacities == {64}
ArenaAlignments == {0, 8}
ArenaSizes == {0, 1, 17, SIZE_MAX - 15, SIZE_MAX}

ArenaCreate ==
    \E a \in ArenaIds, c \in ArenaCapacities, al \in ArenaAlignments,
       p \in {NoArenaId, 1}, ok \in BOOLEAN :
        /\ p # NoArenaId => (a = 2 /\ arenas[p] # NoArena)
        /\ ve_arena_create(a, c, al, p, ok)

ArenaDestroy == \E a \in ArenaIds : ve_arena_destroy(a)

ArenaAllocateCall == \E a \in ArenaIds, n \in ArenaSizes : ve_arena_allocate(a, n)

ArenaReset == \E a \in ArenaIds : ve_arena_reset(a)

ArenaSetPosition == \E a \in ArenaIds, p \in {0, 16} : ve_arena_set_position(a, p)

NextArena ==
    \/ ArenaCreate
    \/ ArenaDestroy
    \/ ArenaAllocateCall
    \/ ArenaReset
    \/ ArenaSetPosition

SpecArena == InitPoolSpec /\ [][NextArena]_vars

(* ------------------------------------------------------------------ *)
(* Claims                                                              *)
(* ------------------------------------------------------------------ *)
\* the device still executes a submission of buffer c
Executing(c) ==
    \E i \in 1 .. Len(queue[BufLane(c)]) : queue[BufLane(c)][i].buf = c

BeginOps == {"ve_command_buffer_begin", "ve_command_buffer_begin_frame"}
EndOps == {"ve_command_buffer_end", "ve_command_buffer_end_frame"}
\* what a call returns when it accepted the request
Accepted == {"VK_SUCCESS", "cmd"}

\* C1 (as claimed): fence reuse safety - no command buffer is in the
\* recording state (begun again) while a submission of it is still pending
\* on the device, whatever the order of the frame-cycle calls.
C1_NoRerecordWhileExecuting ==
    \A c \in DOMAIN vk_state : ~(Executing(c) /\ vk_state[c] = "recording")

\* C2 (as claimed): a ve_command_buffer_init during which every device call
\* succeeds returns VK_SUCCESS, leaves the manager initialised, and afterwards
\* ve_command_buffer_get_current gives a non-null, not-recording buffer for
\* every lane.
C2_InitSucceedsWhenDeviceDoes ==
    (last.op = "ve_command_buffer_init" /\ last.pre) =>
        /\ last.res = "VK_SUCCESS"
        /\ g_initialized
        /\ \A l \in Lanes :
              /\ ve_command_buffer_get_current(l) # NoBuf
              /\ ~cmd[ve_command_buffer_get_current(l)].is_recording

\* C3 (as claimed): a submit of a buffer that is not "ready to submit" (no
\* begin and successful end since its creation or its last submit) is
\* rejected and nothing is enqueued.
C3_SubmitOnlyWhenReady ==
    (last.op = "ve_command_buffer_submit" /\ ~last.pre) =>
        (last.res \notin Accepted /\ ~last.dev)

\* C4 (as claimed): a begin on a buffer that is already recording, through
\* either entry point and in every assert mode, reports a failure, makes no
\* vkBeginCommandBuffer call and leaves the buffer as it was.
C4_DoubleBeginFails ==
    [][(last'.op \in BeginOps /\ ~last'.pre) =>
          /\ last'.res \notin Accepted
          /\ ~last'.dev
          /\ cmd' = cmd
          /\ vk_state' = vk_state]_vars

\* C5 (as claimed): an end on a buffer that is not recording fails and
\* changes nothing; a successful end on a recording buffer leaves it not
\* recording and ready to submit.
C5_EndOnlyFromRecording ==
    [][last'.op \in EndOps =>
          /\ ~last'.pre => (last'.res \notin Accepted /\ cmd' = cmd
                              /\ vk_state' = vk_state)
          /\ (last'.pre /\ last'.res = "VK_SUCCESS") =>
                \E c \in DOMAIN cmd : /\ cmd[c].is_recording
                                 /\ ~cmd'[c].is_recording
                                 /\ vk_state'[c] = "executable"]_vars

AcquireOrPresent == {"ve_swapchain_acquire_next_image", "ve_swapchain_present"}
Rebuilds == {"ve_swapchain_create", "ve_swapchain_recreate"}

\* C6 (as claimed): ve_swapchain_acquire_next_image hands a device answer of
\* Suboptimal back as Suboptimal and one of OutOfDate back as OutOfDate,
\* never as plain success and never as the other.
C6_AcquireOutcomesDistinct ==
    last.op = "ve_swapchain_acquire_next_image" =>
        /\ last.dev = "VK_SUBOPTIMAL_KHR" => last.res = "VK_SUBOPTIMAL_KHR"
        /\ last.dev = "VK_ERROR_OUT_OF_DATE_KHR" => last.res = "VK_ERROR_OUT_OF_DATE_KHR"

\* C7 (as claimed): the out-of-date flag, once set, is cleared by nothing but
\* a ve_swapchain_create / ve_swapchain_recreate that returns VK_SUCCESS; no
\* acquire and no present clears it.
C7_FlagStickyUntilRebuild ==
    [][(g_swapchain.out_of_date /\ ~g_swapchain'.out_of_date) =>
          (last'.op \in Rebuilds /\ last'.res = "VK_SUCCESS")]_vars

\* C8: right after an acquire or a present that the device answered with
\* OutOfDate or Suboptimal, ve_swapchain_is_out_of_date() is true.
C8_FlagSetOnStaleAnswer ==
    (/\ last.op \in AcquireOrPresent
     /\ last.dev \in {"VK_ERROR_OUT_OF_DATE_KHR", "VK_SUBOPTIMAL_KHR"})
        => ve_swapchain_is_out_of_date

\* C8 witness: an acquire on a chain whose flag was clear, answered
\* Suboptimal by the device, has returned and the flag is set
C8_Witness ==
    /\ last.op = "ve_swapchain_acquire_next_image"
    /\ last.dev = "VK_SUBOPTIMAL_KHR"
    /\ last.pre = FALSE
    /\ ve_swapchain_is_out_of_date

\* C9 (as claimed): while a chain is built, image_count equals the number of
\* images, which equals the number of image views and, when there is a
\* framebuffer array, the number of framebuffers.
C9_CountsAgree ==
    g_swapchain.swapchain =>
        /\ g_swapchain.image_count = g_swapchain.images
        /\ g_swapchain.images = g_swapchain.image_views
        /\ g_swapchain.framebuffers # NoArray =>
              Len(g_swapchain.framebuffers) = g_swapchain.image_count

\* C10 (as claimed): a ve_swapchain_create_framebuffers whose
\* vkCreateFramebuffer fails at some image index leaves no framebuffer of its
\* own behind, and the framebuffers the chain had before the call are still
\* the chain's and still exist on the device.
C10_CreateFramebuffersAllOrNothing ==
    [][(/\ last'.op = "ve_swapchain_create_framebuffers"
        /\ last'.res = "VK_ERROR_OUT_OF_DEVICE_MEMORY"
        /\ last'.pre) =>
          /\ vk_framebuffers' \subseteq vk_framebuffers
          /\ g_swapchain'.framebuffers = g_swapchain.framebuffers
          /\ Range(g_swapchain.framebuffers) \subseteq vk_framebuffers']_vars

\* C11: a framebuffer that a caller injected with owns_framebuffers = false
\* exists on the device until the caller destroys it itself: no
\* ve_swapchain_create_framebuffers, ve_swapchain_set_framebuffers,
\* ve_swapchain_destroy, ve_swapchain_create or ve_swapchain_recreate
\* destroys it.
C11_InjectedFramebuffersSurvive == vk_injected \subseteq vk_framebuffers

\* C11 witness: ve_swapchain_destroy has run on a chain that held injected,
\* unowned framebuffers, and they still exist
C11_Witness ==
    /\ last.op = "ve_swapchain_destroy"
    /\ vk_injected # {}
    /\ g_swapchain.framebuffers = NoArray
    /\ vk_injected \subseteq vk_framebuffers

\* C12: when a fence or semaphore creation fails in ve_sync_init, the call
\* returns an error, every handle of every frame slot is null, and every
\* primitive the call created has been destroyed (the device holds as many
\* sync objects as when the call began).
C12_InitFailureLeavesNothing ==
    (last.op = "ve_sync_init" /\ last.dev # NoFailure) =>
        /\ last.res # "VK_SUCCESS"
        /\ fences = NoFences
        /\ sync_handles = NoSyncHandles
        /\ vk_sync_objects = last.pre

\* C12 witness: a semaphore of the last slot failed, after twenty creations
\* had succeeded
C12_Witness ==
    /\ last.op = "ve_sync_init"
    /\ last.dev = <<VE_MAX_FRAMES_IN_FLIGHT - 1, "render_finished_semaphore">>
    /\ last.res = "VK_ERROR_OUT_OF_DEVICE_MEMORY"
    /\ fences = NoFences

\* C14: after a successful ve_sync_init each of the three frame slots holds
\* a render fence in the signaled state and four semaphores (image_available
\* and one finished semaphore per lane), and a wait on a slot whose fence is
\* still signaled does not time out.
C14_InitLeavesSlotsReady ==
    /\ [](last.op = "ve_sync_init" /\ last.res = "VK_SUCCESS" =>
            /\ Cardinality(SemaphorePrimitives) = NumLanes + 1
            /\ \A s \in Slots :
                  /\ fences[s] = "signaled"
                  /\ SemaphorePrimitives \subseteq sync_handles[s])
    /\ [][(last'.op = "ve_sync_wait_for_frame"
             /\ fences[sync_current_frame] = "signaled")
           => last'.res # "VK_TIMEOUT"]_vars

\* C14 witness: the wait on the last slot returned VK_SUCCESS while no fence
\* of the registry had been reset
C14_Witness ==
    /\ last.op = "ve_sync_wait_for_frame"
    /\ last.res = "VK_SUCCESS"
    /\ sync_current_frame = VE_MAX_FRAMES_IN_FLIGHT - 1
    /\ \A s \in Slots : fences[s] = "signaled"

\* C15: when the wait on the slot's fence succeeds the fence is unsignaled
\* when the operation returns; when the wait ends with a timeout or with
\* device loss the fence is as it was before the call.
C15_WaitSuccessResetsFence ==
    last.op = "ve_sync_wait_for_frame" =>
        IF last.res = "VK_SUCCESS"
        THEN fences[sync_current_frame] = "unsignaled"
        ELSE fences[sync_current_frame]
                = (IF last.pre THEN "signaled" ELSE "unsignaled")

RECURSIVE Advanced(_, _)
\* the slot index after n advances from c, each by one modulo the slot count
Advanced(c, n) ==
    IF n = 0 THEN c ELSE Advanced((c + 1) % VE_MAX_FRAMES_IN_FLIGHT, n - 1)

\* C16: ve_sync_advance_frame sets current_frame to (current_frame + 1) mod F
\* and changes nothing else; current_frame is always in 0 .. F-1; F advances
\* in a row bring it back to where it was.
C16_AdvanceIsModularCounter ==
    /\ [](sync_current_frame \in 0 .. VE_MAX_FRAMES_IN_FLIGHT - 1)
    /\ [](Advanced(sync_current_frame, VE_MAX_FRAMES_IN_FLIGHT) = sync_current_frame)
    /\ [][last'.op = "ve_sync_advance_frame" =>
            /\ sync_current_frame'
                  = (sync_current_frame + 1) % VE_MAX_FRAMES_IN_FLIGHT
            /\ UNCHANGED <<coreVars, alive, assertVars, mgrVars, cmdVars, fences,
                           syncObjVars, vk_current_frame, swapVars>>]_vars

\* C16 witness: an advance from the last slot wrapped to slot 0 of a registry
\* whose fences exist
C16_Witness ==
    /\ last.op = "ve_sync_advance_frame"
    /\ sync_current_frame = 0
    /\ fences[0] = "unsignaled"
    /\ fences[VE_MAX_FRAMES_IN_FLIGHT - 1] = "unsignaled"

\* C13: when a pool creation or a buffer allocation fails in
\* ve_command_buffer_init, the call returns an error, no pool and no frame
\* command buffer of the manager remains (the device holds as many pools as
\* when the call began) and the manager is not initialized.
C13_InitFailureRollsBack ==
    (last.op = "ve_command_buffer_init" /\ last.res # "VK_SUCCESS") =>
        /\ g_command_pools = NoPools
        /\ g_frame_command_buffers = NoFrameBuffers
        /\ vk_command_pools = last.dev
        /\ ~g_initialized

\* C13 witness: the three pools had been created when an allocation failed
C13_Witness ==
    /\ last.op = "ve_command_buffer_init"
    /\ last.res = "VK_ERROR_OUT_OF_DEVICE_MEMORY"
    /\ g_command_pools = NoPools
    /\ vk_command_pools = 0

\* C17: for a non-empty list of offered formats
\* ve_swapchain_choose_surface_format returns the entry equal to the
\* preferred format and colour space if one is offered, else the
\* B8G8R8A8_SRGB / SRGB_NONLINEAR entry if offered, else the first entry; the
\* result is always an offered format and the same for the same arguments.
C17_ChooseSurfaceFormat ==
    last.op = "ve_swapchain_choose_surface_format" =>
        LET offered == Range(last.pre.formats)
            srgb == [format |-> "VK_FORMAT_B8G8R8A8_SRGB",
                     colorSpace |-> "VK_COLOR_SPACE_SRGB_NONLINEAR_KHR"]
        IN /\ last.res \in offered
           /\ IF last.pre.preferred \cap offered # {}
              THEN last.res \in last.pre.preferred
              ELSE IF srgb \in offered THEN last.res = srgb
              ELSE last.res = last.pre.formats[1]
           /\ last.res = ve_swapchain_choose_surface_format(last.pre.formats,
                                                            last.pre.preferred)

\* C17 witness: the preferred format is offered second, behind the
\* B8G8R8A8_SRGB / SRGB_NONLINEAR entry, and is the one returned
C17_Witness ==
    /\ last.op = "ve_swapchain_choose_surface_format"
    /\ Len(last.pre.formats) = 2
    /\ last.pre.formats[1] = [format |-> "VK_FORMAT_B8G8R8A8_SRGB",
                              colorSpace |-> "VK_COLOR_SPACE_SRGB_NONLINEAR_KHR"]
    /\ last.pre.preferred = {[format |-> "VK_FORMAT_B8G8R8A8_UNORM",
                              colorSpace |-> "VK_COLOR_SPACE_SRGB_NONLINEAR_KHR"]}
    /\ last.res = last.pre.formats[2]
    /\ last.res \in last.pre.preferred

\* C18: ve_swapchain_choose_present_mode returns mailbox exactly when triple
\* buffering is asked for, v-sync is off and mailbox is offered; otherwise
\* immediate exactly when v-sync is off and immediate is offered; otherwise
\* FIFO.  It always returns one of the three.
C18_ChoosePresentMode ==
    last.op = "ve_swapchain_choose_present_mode" =>
        LET offered == Range(last.pre.modes)
            mailbox == /\ last.pre.triple_buffering
                       /\ ~last.pre.vsync
                       /\ "VK_PRESENT_MODE_MAILBOX_KHR" \in offered
            immediate == /\ ~mailbox
                         /\ ~last.pre.vsync
                         /\ "VK_PRESENT_MODE_IMMEDIATE_KHR" \in offered
        IN /\ (last.res = "VK_PRESENT_MODE_MAILBOX_KHR") <=> mailbox
           /\ (last.res = "VK_PRESENT_MODE_IMMEDIATE_KHR") <=> immediate
           /\ (last.res = "VK_PRESENT_MODE_FIFO_KHR") <=> (~mailbox /\ ~immediate)
           /\ last.res \in {"VK_PRESENT_MODE_MAILBOX_KHR",
                            "VK_PRESENT_MODE_IMMEDIATE_KHR",
                            "VK_PRESENT_MODE_FIFO_KHR"}

\* C18 witness: immediate is offered ahead of mailbox, triple buffering is
\* asked for without v-sync, and mailbox is returned
C18_Witness ==
    /\ last.op = "ve_swapchain_choose_present_mode"
    /\ last.pre.modes = <<"VK_PRESENT_MODE_IMMEDIATE_KHR",
                          "VK_PRESENT_MODE_MAILBOX_KHR">>
    /\ last.pre.triple_buffering
    /\ ~last.pre.vsync
    /\ last.res = "VK_PRESENT_MODE_MAILBOX_KHR"

\* x brought into lo .. hi
Clamped(lo, hi, x) == IF x < lo THEN lo ELSE IF x > hi THEN hi ELSE x

\* C19: ve_swapchain_choose_extent returns the surface's current extent when
\* the surface has one; otherwise the requested width and height, each
\* clamped into the range from minImageExtent to maxImageExtent.
C19_ChooseExtentClamps ==
    last.op = "ve_swapchain_choose_extent" =>
        LET caps == last.pre.capabilities IN
        IF caps.currentExtent.width # UINT32_MAX
        THEN last.res = caps.currentExtent
        ELSE /\ last.res.width = Clamped(caps.minImageExtent.width,
                                         caps.maxImageExtent.width,
                                         last.pre.width)
             /\ last.res.height = Clamped(caps.minImageExtent.height,
                                          caps.maxImageExtent.height,
                                          last.pre.height)
             /\ last.res.width >= caps.minImageExtent.width
             /\ last.res.width <= caps.maxImageExtent.width
             /\ last.res.height >= caps.minImageExtent.height
             /\ last.res.height <= caps.maxImageExtent.height

\* C20: when ve_swapchain_recreate succeeds twice in a row with the same
\* configuration on the same surface, the second call leaves the image
\* count, the format and the extent the first one left, and after it one
\* chain with one image view per image is live: the device holds the objects
\* it held after the first call.
C20_RebuildIdempotent ==
    [][(last'.op = "ve_swapchain_recreate" /\ last'.res = "VK_SUCCESS"
          /\ last'.pre.repeated) =>
          /\ g_swapchain'.image_count = g_swapchain.image_count
          /\ g_swapchain'.format = g_swapchain.format
          /\ g_swapchain'.extent = g_swapchain.extent
          /\ g_swapchain'.swapchain
          /\ g_swapchain'.image_views = g_swapchain'.image_count
          /\ g_swapchain'.images = g_swapchain'.image_count
          /\ vk_chain_objects'.swapchains = 1
          /\ vk_chain_objects' = vk_chain_objects]_vars

\* C20 witness: the second of two successful rebuilds on the surface without
\* an extent has run, and the chain of the first is gone
C20_Witness ==
    /\ last.op = "ve_swapchain_recreate"
    /\ last.res = "VK_SUCCESS"
    /\ last.pre.repeated
    /\ last.pre.surface = FreeSurface
    /\ g_swapchain.extent = [width |-> 800, height |-> 768]
    /\ vk_chain_objects = [swapchains |-> 1, image_views |-> MaxImages]


\* C21: when ve_thread_pool_wait returns, every task whose submit had returned
\* before the call has finished executing
C21_WaitReturnsAfterTasksFinished ==
    waiter.pc = "returned" => \A t \in waiter.before : executed[t] >= 1


\* where an accepted task is: how many queue entries, workers and completed
\* runs hold it
QueuedEntries(t) ==
    Cardinality({k \in 0 .. (pool.queue_count - 1) :
                    pool.task_queue[(pool.queue_head + k) % queue_capacity] = t})

TakenBy(t) == {w \in Workers : worker[w].pc = "task" /\ worker[w].task = t}

AcceptedTasks == (submitted \cup {submitting[c] : c \in Callers}) \ {NoTask}

DispatchedOnce ==
    /\ \A t \in Tasks : executed[t] <= 1
    /\ \A t \in AcceptedTasks :
          QueuedEntries(t) + Cardinality(TakenBy(t)) + executed[t] = 1
    /\ \A t \in Tasks \ AcceptedTasks :
          QueuedEntries(t) + Cardinality(TakenBy(t)) + executed[t] = 0

\* C28: every task whose submit returned true is taken by exactly one worker
\* and run exactly once, unless the pool is destroyed first: at every moment
\* an accepted task is in one place only (queued, taken by one worker, or run
\* once), and a task whose submit returned true is run in the end
C28_TaskDispatchedExactlyOnce ==
    /\ []DispatchedOnce
    /\ \A t \in Tasks :
          (t \in submitted) ~> (executed[t] = 1 \/ pool.shutdown)

\* every task was accepted, went through the queue and was run once, and
\* the pool was never shut down
C28_Witness ==
    /\ ~pool.shutdown
    /\ \A t \in Tasks : t \in submitted /\ executed[t] = 1
    /\ \A w \in Workers : worker[w].pc # "task"


\* C22: a ve_command_buffer_submit_simple that succeeds puts the submission on
\* the queue it was given: no other queue grows in the call
C22_SubmitSimpleUsesQueueArgument ==
    [][(last'.op = "ve_command_buffer_submit_simple" /\ last'.res = "VK_SUCCESS")
         => \A l \in DOMAIN queue :
               Len(queue'[l]) > Len(queue[l]) => l = queue_arg']_vars


\* C23: the ve_pool_allocate that follows a ve_pool_free of a held block p
\* returns p, whatever was allocated, freed and written before
C23_FreedBlockIsReusedFirst ==
    [][(last.op = "ve_pool_free" /\ last.pre # NullElement
          /\ last'.op = "ve_pool_allocate") => last'.res = last.pre]_vars

\* a block was freed onto a free list that already held one, and handed out
\* again by the next allocation
C23_Witness ==
    /\ last.op = "ve_pool_allocate"
    /\ last.res # NullElement
    /\ last.res # (ve_pool.used - 1) * ve_pool.element_size
    /\ ve_pool.free_list # NullElement
    /\ ve_pool.used = ve_pool.capacity


\* C29: a block that ve_pool_allocate returns was not held by anyone when
\* it was returned and lies inside the pool's memory, and never more than
\* `capacity` blocks are held
C29_PoolBlocksNeverAlias ==
    /\ (last.op = "ve_pool_allocate" /\ last.res # NullElement) =>
          /\ last.res \notin last.pre
          /\ ve_pool_contains(ve_pool, last.res)
          /\ last.res + ve_pool.element_size <= ve_pool.capacity * ve_pool.element_size
    /\ Cardinality(pool_allocated) <= ve_pool.capacity

\* the first block was freed and handed out again while every other block
\* of the pool was held
C29_Witness ==
    /\ last.op = "ve_pool_allocate"
    /\ last.res = 0
    /\ Cardinality(last.pre) = ve_pool.capacity - 1
    /\ Cardinality(pool_allocated) = ve_pool.capacity


\* C24: usage is 0 right after ve_arena_create and ve_arena_reset; an
\* allocation of n bytes that the arena itself served raised its usage by at
\* least n; usage never exceeds capacity
C24_ArenaUsageAccounting ==
    /\ (last.op = "ve_arena_create" /\ last.res # NoArenaId) =>
          ve_arena_get_usage(last.res) = 0
    /\ last.op = "ve_arena_reset" => ve_arena_get_usage(last.pre) = 0
    /\ (last.op = "ve_arena_allocate" /\ last.res # NullPtr
          /\ last.dev = last.pre.arena) =>
          ve_arena_get_usage(last.pre.arena) >= last.pre.usage + last.pre.size
    /\ \A a \in ArenaIds :
          arenas[a] # NoArena => arenas[a].used <= arenas[a].capacity


\* C25: the slot that selects the current command buffers is the slot that
\* selects the current fence and semaphores
C25_SlotIndicesAgree == ve_vulkan_get_current_frame = ve_sync_get_current_frame


\* every destroy of the trace comes after a wait for the device, with no
\* submission between the two
WaitsBeforeDestroying(trace) ==
    \A i \in DOMAIN trace :
        IsDestroy(trace[i]) =>
            \E j \in 1 .. (i - 1) :
                /\ trace[j].call = "vkDeviceWaitIdle"
                /\ \A k \in j .. i : trace[k].call # "vkQueueSubmit"

DestroyedBy(trace, call) == \E i \in DOMAIN trace : trace[i].call = call

\* C26: in a ve_swapchain_recreate, and in a ve_swapchain_create that finds a
\* chain, the wait for the device comes before the first framebuffer, image
\* view or swapchain is destroyed, and nothing is submitted in between
C26_RebuildWaitsForIdleFirst ==
    (/\ last.op \in {"ve_swapchain_recreate", "ve_swapchain_create"}
     /\ last.res # "CRASH"
     /\ (last.op = "ve_swapchain_recreate" \/ last.pre.rebuilt))
        => WaitsBeforeDestroying(last.trace)

\* a ve_swapchain_create found a chain with framebuffers of its own and
\* destroyed its framebuffers, its image views and the chain
C26_Witness ==
    /\ last.op = "ve_swapchain_create"
    /\ last.res = "VK_SUCCESS"
    /\ last.pre.rebuilt
    /\ DestroyedBy(last.trace, "vkDestroyFramebuffer")
    /\ DestroyedBy(last.trace, "vkDestroyImageView")
    /\ DestroyedBy(last.trace, "vkDestroySwapchainKHR")


\* the teardown calls, and the init calls whose failure paths tear down
TeardownPaths ==
    {"ve_sync_shutdown", "ve_command_buffer_shutdown", "ve_swapchain_destroy",
     "shutdown_engine", "ve_sync_init", "ve_command_buffer_init",
     "ve_swapchain_create"}

\* C27: every teardown call, and every init call that rolls back, waits for
\* the device to go idle before it destroys a fence, a semaphore, a command
\* pool, a command buffer or an object of the chain
C27_TeardownWaitsForIdleFirst ==
    last.op \in TeardownPaths => WaitsBeforeDestroying(last.trace)


\* the teardown calls
TeardownCalls ==
    {"ve_sync_shutdown", "ve_command_buffer_shutdown", "ve_swapchain_destroy"}

\* C30: whatever init, create and teardown calls came before, no call
\* destroys an object that is no longer on the device (nothing is destroyed
\* twice), and a teardown call that follows the same teardown call destroys
\* nothing
C30_TeardownIsIdempotent ==
    /\ [](\A i \in DOMAIN last.trace : last.trace[i].stale = 0)
    /\ [][(last.op \in TeardownCalls /\ last'.op = last.op)
             => \A i \in DOMAIN last'.trace : ~IsDestroy(last'.trace[i])]_vars

\* a ve_sync_shutdown that destroyed objects was followed by another, which
\* waited for the device and destroyed nothing
C30_Witness ==
    /\ last.op = "ve_sync_shutdown"
    /\ last.dev
    /\ last.trace = ve_vulkan_wait_idle
    /\ vk_sync_objects = 0

====
